---- MODULE Spec2Model ----
(***************************************************************************)
(* Sandbox lifecycle and isolation subsystem: SandboxManager over its two  *)
(* backends (EnvironmentBuilder, ContainerEnvironmentBuilder), the tool    *)
(* registry, the filesystem tools and the in-container tool scripts.       *)
(*                                                                         *)
(* The host filesystem is a set of directories and a map of files, both    *)
(* keyed by absolute paths (sequences of components).  The container       *)
(* runtime is a map of containers and a set of image tags.  Every public   *)
(* operation is one action; what the operating system or the container     *)
(* runtime may refuse (mkdir, rmtree, build, create, start, stop, remove,  *)
(* exec) is an input of the action, drawn with \E.                         *)
(***************************************************************************)
EXTENDS Integers, Sequences, FiniteSets, TLC

\* Number of identifiers uuid.uuid4() hands out in one behaviour.
MaxIds == 2
\* Longest path argument (in components) given to a tool in SpecPath.
MaxPathLen == 4

VARIABLES
    isolation_mode,     \* SandboxManager.isolation_mode
    active_sandboxes,   \* SandboxManager.active_sandboxes: id -> record
    tool_registry,      \* ToolRegistry._tools: name -> class
    uuid_count,         \* how many ids uuid4 has produced
    fs_dirs,            \* host directories (absolute paths)
    fs_files,           \* host files: absolute path -> content
    metadata,           \* <sandbox>/metadata.json, by sandbox id
    containers,         \* container runtime: container id -> container
    images,             \* container runtime: image tags present
    last,               \* the latest call and its outcome
    returned,           \* ids create_sandbox has returned, in order
    cleaned,            \* ids for which cleanup_sandbox has returned True
    written,            \* per sandbox, what its successful write_file calls wrote
    call,               \* the latest call of a component below the manager
    exceeded_containers,\* ResourceManager._exceeded_containers: id -> tracking
    time,               \* time.time(), in seconds
    pc                  \* SpecPath: "call" before the tool call, "done" after

vars == <<isolation_mode, active_sandboxes, tool_registry, uuid_count, fs_dirs,
          fs_files, metadata, containers, images, last, returned, cleaned,
          written, call, exceeded_containers, time, pc>>

-----------------------------------------------------------------------------
(* Paths: pathlib.Path as a sequence of components.                        *)

\* A tool's path argument: the string split at "/"; abs when it starts with "/".
PathArg(abs, parts) == [abs |-> abs, parts |-> parts]

\* The empty string "".
EmptyPath == PathArg(FALSE, <<>>)

IsPrefix(p, q) == Len(p) <= Len(q) /\ SubSeq(q, 1, Len(p)) = p

RECURSIVE NormalizeFrom(_, _)
NormalizeFrom(acc, rest) ==
    IF rest = <<>> THEN acc
    ELSE LET c == Head(rest) IN
         IF c = "." THEN NormalizeFrom(acc, Tail(rest))
         ELSE IF c = ".."
              THEN NormalizeFrom(IF acc = <<>> THEN acc
                                 ELSE SubSeq(acc, 1, Len(acc) - 1), Tail(rest))
              ELSE NormalizeFrom(Append(acc, c), Tail(rest))

\* Path.absolute(): the path as written, ".." kept.
Absolute(p) == p

\* Path.resolve() of an absolute path without symbolic links.
Resolve(p) == NormalizeFrom(<<>>, p)

\* base / file_path: an absolute right operand replaces the left one.
Join(base, arg) == IF arg.abs THEN arg.parts ELSE base \o arg.parts

\* SandboxManager.base_path, resolved.
BasePath == <<"sb">>

SandboxPath(sandbox_id) == BasePath \o <<sandbox_id>>

WorkspacePathShared(sandbox_id) == BasePath \o <<"workspace">>

WorkspacePath(sandbox_id) == SandboxPath(sandbox_id) \o <<"workspace">>

LogsPath(sandbox_id) == SandboxPath(sandbox_id) \o <<"logs">>

\* BASE = Path("/workspace") of the generated scripts.
ScriptBase == <<"workspace">>

-----------------------------------------------------------------------------
(* The world outside the manager: host filesystem and container runtime.   *)

World == [dirs |-> fs_dirs, files |-> fs_files, meta |-> metadata,
          conts |-> containers, imgs |-> images]

Restrict(f, S) == [x \in S |-> f[x]]

ExistsNever(w, p) == FALSE

\* Path.exists()
Exists(w, p) == p \in w.dirs \/ p \in DOMAIN w.files

Prefixes(p) == {SubSeq(p, 1, n) : n \in 1..Len(p)}

\* Path.mkdir(parents=True, exist_ok=True) fails when a component is a file.
CanMkdir(w, p) == Prefixes(p) \cap DOMAIN w.files = {}

Mkdir(w, p) == [w EXCEPT !.dirs = @ \cup Prefixes(p)]

RmtreeSkipped(w, sandbox_id) == w

\* shutil.rmtree(sandbox_path): the tree and the metadata file in it.
Rmtree(w, sandbox_id) ==
    LET root == SandboxPath(sandbox_id) IN
    [w EXCEPT !.dirs = {d \in @ : ~IsPrefix(root, d)},
              !.files = Restrict(@, {f \in DOMAIN @ : ~IsPrefix(root, f)}),
              !.meta = Restrict(@, DOMAIN @ \ {sandbox_id})]

\* open(path, "w"): creates or truncates the file.
WriteFile(w, p, content) ==
    [w EXCEPT !.files = [q \in DOMAIN @ \cup {p} |-> IF q = p THEN content ELSE @[q]]]

\* Names directly under directory p (Path.iterdir()).
Listing(w, p) ==
    {q[Len(p) + 1] : q \in {r \in w.dirs \cup DOMAIN w.files :
                                 IsPrefix(p, r) /\ Len(r) = Len(p) + 1}}

-----------------------------------------------------------------------------
(* Tool arguments and results.                                             *)

\* **kwargs of a tool call: file_path / directory_path and content, each
\* possibly absent.
ToolArgs(has_path, path, has_content, content) ==
    [has_path |-> has_path, path |-> path,
     has_content |-> has_content, content |-> content]

\* What a tool call does: the exception it raises ("" for none), the value
\* it returns, and the world it leaves.
Result(err, ret, listing, w) == [err |-> err, ret |-> ret, listing |-> listing, w |-> w]

Fail(err, w) == Result(err, "", {}, w)

Parent(p) == SubSeq(p, 1, Len(p) - 1)

\* exists / is_file / open(..., "r") / read on a resolved path.
FsRead(w, p) ==
    IF ~Exists(w, p) THEN Fail("FileNotFoundError", w)
    ELSE IF p \notin DOMAIN w.files THEN Fail("ValueError:not a file", w)
    ELSE Result("", w.files[p], {}, w)

\* parent.mkdir(parents=True, exist_ok=True); open(..., "w"); write.
FsWrite(w, p, content) ==
    IF ~CanMkdir(w, Parent(p)) THEN Fail("OSError", w)
    ELSE IF p \in w.dirs THEN Fail("OSError", Mkdir(w, Parent(p)))
    ELSE Result("", "written", {}, WriteFile(Mkdir(w, Parent(p)), p, content))

\* exists / is_dir / iterdir on a resolved path.
FsList(w, p) ==
    IF ~Exists(w, p) THEN Fail("FileNotFoundError", w)
    ELSE IF p \notin w.dirs THEN Fail("ValueError:not a directory", w)
    ELSE Result("", "", Listing(w, p), w)

-----------------------------------------------------------------------------
(* Directory mode: the tools of src/tools/implementations/filesystem.py,   *)
(* each bound to base_path at construction.                                *)

\* _ensure_within_sandbox: the resolved path (both branches resolve the
\* joined path; an absolute argument replaces base_path in the join).
RequestedPath(base_path, arg) == Resolve(Join(base_path, arg))

WithinSandboxes(base_path, requested) == IsPrefix(BasePath, requested)

\* requested_path.relative_to(self.base_path) does not raise.
WithinSandbox(base_path, requested) == IsPrefix(base_path, requested)

ReadFileTool_execute(w, base_path, args) ==
    IF ~args.has_path \/ args.path = EmptyPath THEN Fail("ValueError:invalid", w)
    ELSE LET p == RequestedPath(base_path, args.path) IN
         IF ~WithinSandbox(base_path, p) THEN Fail("ValueError:outside sandbox", w)
         ELSE FsRead(w, p)

WriteFileTool_execute(w, base_path, args) ==
    IF ~args.has_path \/ ~args.has_content \/ args.path = EmptyPath
    THEN Fail("ValueError:invalid", w)
    ELSE LET p == RequestedPath(base_path, args.path) IN
         IF ~WithinSandbox(base_path, p) THEN Fail("ValueError:outside sandbox", w)
         ELSE FsWrite(w, p, args.content)

ListFilesTool_execute(w, base_path, args) ==
    LET arg == IF args.has_path THEN args.path ELSE PathArg(FALSE, <<".">>)
        p == RequestedPath(base_path, arg)
    IN IF ~WithinSandbox(base_path, p) THEN Fail("ValueError:outside sandbox", w)
       ELSE FsList(w, p)

\* tool.execute(**kwargs) of the instance stored for tool_name.
Tool_execute(w, tool_name, base_path, args) ==
    CASE tool_name = "read_file" -> ReadFileTool_execute(w, base_path, args)
      [] tool_name = "write_file" -> WriteFileTool_execute(w, base_path, args)
      [] tool_name = "list_files" -> ListFilesTool_execute(w, base_path, args)
      [] OTHER -> Result("", "custom", {}, w)

-----------------------------------------------------------------------------
(* Container mode: the generated scripts of ContainerToolExecutor.  The    *)
(* script sees the container's filesystem; /workspace is the bind mount of *)
(* the host directory `bind` (ContainerManager.create_container).          *)

SUPPORTED_TOOLS == {"read_file", "write_file", "list_files"}

\* target = (BASE / file_path).resolve()
ScriptTarget(arg) == Resolve(Join(ScriptBase, arg))

\* target.relative_to(BASE) does not raise.
ScriptWithin(target) == IsPrefix(ScriptBase, target)

\* The host path behind a container path under /workspace.
BindPath(bind, target) == bind \o SubSeq(target, Len(ScriptBase) + 1, Len(target))

script_read_file(w, bind, args) ==
    IF ~args.has_path \/ args.path = EmptyPath THEN Fail("ValueError:invalid", w)
    ELSE LET target == ScriptTarget(args.path) IN
         IF ~ScriptWithin(target) THEN Fail("ValueError:outside sandbox", w)
         ELSE FsRead(w, BindPath(bind, target))

script_write_file(w, bind, args) ==
    IF ~args.has_path \/ args.path = EmptyPath THEN Fail("ValueError:invalid", w)
    ELSE LET target == ScriptTarget(args.path)
             content == IF args.has_content THEN args.content ELSE ""
         IN IF ~ScriptWithin(target) THEN Fail("ValueError:outside sandbox", w)
            ELSE FsWrite(w, BindPath(bind, target), content)

script_list_files(w, bind, args) ==
    LET arg == IF args.has_path THEN args.path ELSE PathArg(FALSE, <<".">>)
        target == ScriptTarget(arg)
    IN IF ~ScriptWithin(target) THEN Fail("ValueError:outside sandbox", w)
       ELSE FsList(w, BindPath(bind, target))

\* _create_tool_script and the run of the script it returns.
create_tool_script(w, tool_name, bind, args) ==
    CASE tool_name = "read_file" -> script_read_file(w, bind, args)
      [] tool_name = "write_file" -> script_write_file(w, bind, args)
      [] tool_name = "list_files" -> script_list_files(w, bind, args)

execute_tool_unchecked(w, container_id, tool_name, args, exec_ok) ==
    IF container_id \notin DOMAIN w.conts THEN Fail("NotFound", w)
    ELSE IF w.conts[container_id].status # "running" THEN Fail("APIError:not running", w)
    ELSE IF ~exec_ok THEN Fail("RuntimeError:exec", w)
    ELSE Result("", "custom", {}, w)

\* ContainerToolExecutor.execute_tool; exec_ok: whether the runtime ran the
\* command (exit code 0 and no reported error).
ContainerToolExecutor_execute_tool(w, container_id, tool_name, args, exec_ok) ==
    IF tool_name \notin SUPPORTED_TOOLS THEN Fail("ValueError:unknown tool", w)
    ELSE IF container_id \notin DOMAIN w.conts THEN Fail("NotFound", w)
    ELSE IF w.conts[container_id].status # "running" THEN Fail("APIError:not running", w)
    ELSE IF ~exec_ok THEN Fail("RuntimeError:exec", w)
    ELSE LET r == create_tool_script(w, tool_name, w.conts[container_id].bind, args) IN
         IF r.err = "" THEN r ELSE Fail("RuntimeError:" \o r.err, r.w)

-----------------------------------------------------------------------------
(* Skills, the tool registry and image tags.                               *)

Skill(name, tools, python_version, packages, system_packages) ==
    [name |-> name, tools |-> tools, python_version |-> python_version,
     packages |-> packages, system_packages |-> system_packages]

\* The package names skills declare, in the order sorted() puts them (by
\* code point); a skill lists packages by their position here.
PackageNames == <<"a", "a|b", "b", "sys:a">>

\* A skill's name is the sequence of its characters.
Skills ==
    { Skill(<<"f", "i", "l", "e", "s">>, {"write_file", "web_search"}, "3.11",
            <<3, 1>>, <<>>),
      Skill(<<"p", "l", "a", "i", "n">>, {"read_file"}, "", <<>>, <<>>) }

\* ContainerConfig.base_image
DefaultBaseImage == "python:3.11-slim"

\* ToolRegistry._register_default_tools
DefaultTools == [n \in {"read_file", "write_file", "list_files"} |-> "filesystem"]

\* The class a caller registers: a ToolBase subclass that keeps
\* ToolBase.__init__(name, description) and so takes no base_path.
ToolClasses == {"without_base_path"}

\* ToolRegistry.get_tool: "none" for an unregistered name, "raise" when
\* tool_class(**init_kwargs) raises, else "instance".
get_tool(registry, name) ==
    IF name \notin DOMAIN registry THEN "none"
    ELSE IF registry[name] = "without_base_path" THEN "raise"
    ELSE "instance"

RECURSIVE Insert(_, _)
Insert(x, sorted) ==
    IF sorted = <<>> THEN <<x>>
    ELSE IF x <= Head(sorted) THEN <<x>> \o sorted
    ELSE <<Head(sorted)>> \o Insert(x, Tail(sorted))

RECURSIVE Sorted(_)
Unsorted(seq) == seq

\* sorted(packages)
Sorted(seq) == IF seq = <<>> THEN <<>> ELSE Insert(Head(seq), Sorted(Tail(seq)))

\* sep.join(items)
RECURSIVE str_join(_, _)
str_join(sep, items) ==
    IF items = <<>> THEN ""
    ELSE IF Len(items) = 1 THEN Head(items)
    ELSE Head(items) \o sep \o str_join(sep, Tail(items))

\* The names behind a list of package positions.
PackageText(packages) == [i \in DOMAIN packages |-> PackageNames[packages[i]]]

\* DockerImageBuilder._requirements_to_string
requirements_to_string(skill, base_image) ==
    str_join("\n",
        <<base_image, skill.python_version>>
        \o (IF skill.packages # <<>>
            THEN <<str_join("|", PackageText(Sorted(skill.packages)))>> ELSE <<>>)
        \o (IF skill.system_packages # <<>>
            THEN <<"sys:" \o str_join("|", PackageText(Sorted(skill.system_packages)))>>
            ELSE <<>>))

\* hashlib.sha256(text.encode()).hexdigest()[:12], taken as free of
\* collisions: the digest stands for the text it was computed from.
hexdigest12(text) == <<"sha256", text>>

\* str.lower() on the letters skill names use.
lower(c) == CASE c = "A" -> "a" [] c = "B" -> "b" [] OTHER -> c

\* Characters c (after lower()) with c.isalnum().
Alnum == {"a", "b", "c", "d", "e", "f", "g", "h", "i", "j", "k", "l", "m", "n",
          "o", "p", "q", "r", "s", "t", "u", "v", "w", "x", "y", "z",
          "0", "1", "2", "3", "4", "5", "6", "7", "8", "9"}

\* name.lower().replace(" ", "-").replace("_", "-"), then the characters
\* that are alphanumeric or "-".
RECURSIVE sanitized_name(_)
sanitized_name(name) ==
    IF name = <<>> THEN ""
    ELSE LET c == lower(Head(name))
             d == IF c \in {" ", "_"} THEN "-" ELSE c
         IN (IF d \in Alnum \cup {"-"} THEN d ELSE "") \o sanitized_name(Tail(name))

\* DockerImageBuilder._generate_image_tag: skill-<sanitized name>-<hash>.
generate_image_tag(skill, base_image) ==
    [name |-> sanitized_name(skill.name),
     hash |-> hexdigest12(requirements_to_string(skill, base_image))]

\* The id the runtime gives the container named sandbox-<sandbox_id>.
ContainerId(sandbox_id) == "c" \o sandbox_id

-----------------------------------------------------------------------------
(* EnvironmentBuilder (directory backend).                                 *)

\* What a builder call does: the exception it raises, the step that failed,
\* and the world it leaves.
Built(err, stage, w) == [err |-> err, stage |-> stage, w |-> w]

NeedsVenv(skill) == skill.python_version # "" \/ skill.packages # <<>>

\* The steps of EnvironmentBuilder.create_environment that can fail.
DirectorySteps(skill) ==
    {"mkdir", "mkdir_logs", "metadata"}
    \cup (IF NeedsVenv(skill) THEN {"venv"} ELSE {})
    \cup (IF skill.packages # <<>> THEN {"install"} ELSE {})

NoImage == [name |-> "", hash |-> <<>>]

\* metadata.json as EnvironmentBuilder._save_metadata writes it.
DirectoryMetadata == [valid |-> TRUE, container_id |-> "", image_tag |-> NoImage]

\* The try block up to the step `fail` ("none": to the end).
EnvironmentBuilder_build(w, skill, sandbox_id, fail) ==
    IF fail = "mkdir" THEN w
    ELSE LET w1 == Mkdir(w, WorkspacePath(sandbox_id)) IN
    IF fail = "mkdir_logs" THEN w1
    ELSE LET w2 == Mkdir(w1, LogsPath(sandbox_id)) IN
    IF fail = "venv" THEN w2
    ELSE LET w3 == IF NeedsVenv(skill)
                   THEN Mkdir(w2, SandboxPath(sandbox_id) \o <<"venv">>) ELSE w2 IN
    IF fail \in {"install", "metadata"} THEN w3
    ELSE [w3 EXCEPT !.meta = [s \in DOMAIN @ \cup {sandbox_id} |->
                                 IF s = sandbox_id THEN DirectoryMetadata ELSE @[s]]]

\* EnvironmentBuilder.create_environment; rm_ok: whether the rollback's
\* shutil.rmtree succeeds.
EnvironmentBuilder_create_environment(w, skill, sandbox_id, fail, rm_ok) ==
    IF sandbox_id = "" THEN Built("ValueError", "empty id", w)
    ELSE IF Exists(w, SandboxPath(sandbox_id)) THEN Built("ValueError", "exists", w)
    ELSE LET b == EnvironmentBuilder_build(w, skill, sandbox_id, fail) IN
         IF fail = "none" THEN Built("", "", b)
         ELSE IF ~Exists(b, SandboxPath(sandbox_id)) THEN Built("RuntimeError", fail, b)
         ELSE IF rm_ok THEN Built("RuntimeError", fail, Rmtree(b, sandbox_id))
         ELSE Built("OSError", fail, b)

\* What a cleanup call does: the exception it raises, the value it returns
\* and the world it leaves.
Cleaned(err, ret, w) == [err |-> err, ret |-> ret, w |-> w]

\* EnvironmentBuilder.cleanup
EnvironmentBuilder_cleanup(w, sandbox_id, rm_ok) ==
    IF ~Exists(w, SandboxPath(sandbox_id)) THEN Cleaned("", FALSE, w)
    ELSE IF rm_ok THEN Cleaned("", TRUE, Rmtree(w, sandbox_id))
    ELSE Cleaned("RuntimeError", FALSE, w)

-----------------------------------------------------------------------------
(* ContainerManager and ContainerEnvironmentBuilder (container backend).   *)

SetKey(f, k, v) == [x \in DOMAIN f \cup {k} |-> IF x = k THEN v ELSE f[x]]

\* A container as the runtime holds it; bind: the host directory mounted at
\* config.working_dir (/workspace).
Container(sandbox_id, image_tag, status) ==
    [name |-> sandbox_id, image |-> image_tag, status |-> status,
     bind |-> WorkspacePath(sandbox_id)]

\* ContainerManager.stop_container; an absent container or a refused stop
\* raises (ok = FALSE).
stop_container(w, container_id, stop_ok) ==
    IF container_id \in DOMAIN w.conts /\ stop_ok
    THEN [ok |-> TRUE, w |-> [w EXCEPT !.conts[container_id].status = "exited"]]
    ELSE [ok |-> FALSE, w |-> w]

remove_container_strict(w, container_id, remove_ok) ==
    IF container_id \in DOMAIN w.conts /\ remove_ok
    THEN [ok |-> TRUE,
          w |-> [w EXCEPT !.conts = Restrict(@, DOMAIN @ \ {container_id})]]
    ELSE [ok |-> FALSE, w |-> w]

\* ContainerManager.remove_container: NotFound is swallowed, APIError raised.
remove_container(w, container_id, remove_ok) ==
    IF container_id \notin DOMAIN w.conts THEN [ok |-> TRUE, w |-> w]
    ELSE IF remove_ok
    THEN [ok |-> TRUE,
          w |-> [w EXCEPT !.conts = Restrict(@, DOMAIN @ \ {container_id})]]
    ELSE [ok |-> FALSE, w |-> w]

\* The outcomes the runtime and the OS choose during one cleanup.
CleanupOutcomes == [stop_ok : BOOLEAN, remove_ok : BOOLEAN, rm_ok : BOOLEAN]

\* ContainerEnvironmentBuilder.cleanup (remove_image = False).
ContainerEnvironmentBuilder_cleanup(w, sandbox_id, o) ==
    IF sandbox_id = "" THEN Cleaned("", FALSE, w)
    ELSE IF ~Exists(w, SandboxPath(sandbox_id)) THEN Cleaned("", FALSE, w)
    ELSE LET container_id ==
                 IF sandbox_id \in DOMAIN w.meta /\ w.meta[sandbox_id].valid
                 THEN w.meta[sandbox_id].container_id ELSE ""
             w1 == IF container_id = "" THEN w
                   ELSE remove_container(stop_container(w, container_id, o.stop_ok).w,
                                         container_id, o.remove_ok).w
         IN IF o.rm_ok THEN Cleaned("", TRUE, Rmtree(w1, sandbox_id))
            ELSE Cleaned("", FALSE, w1)

image_never_exists(w, tag) == FALSE

\* DockerImageBuilder._image_exists: images.get(tag) finds the image.
image_exists(w, tag) == tag \in w.imgs

\* Whether create_environment issues images.build: the id checks passed and
\* the image of the computed tag is not there.
build_issued(w, skill, sandbox_id) ==
    /\ sandbox_id # ""
    /\ ~Exists(w, SandboxPath(sandbox_id))
    /\ ~image_exists(w, generate_image_tag(skill, DefaultBaseImage))

\* The steps of ContainerEnvironmentBuilder.create_environment that can fail.
ContainerSteps(w, skill) ==
    {"create_mkdir", "create", "start", "mkdir", "metadata_open", "metadata_dump"}
    \cup (IF image_exists(w, generate_image_tag(skill, DefaultBaseImage))
          THEN {} ELSE {"image"})

metadata_without_container(container_id, image_tag) ==
    [valid |-> TRUE, container_id |-> "", image_tag |-> image_tag]

ContainerMetadata(container_id, image_tag) ==
    [valid |-> TRUE, container_id |-> container_id, image_tag |-> image_tag]

CorruptMetadata == [valid |-> FALSE, container_id |-> "", image_tag |-> NoImage]

\* The try block up to the step `fail` ("none": to the end).
ContainerEnvironmentBuilder_build(w, skill, sandbox_id, fail) ==
    LET image_tag == generate_image_tag(skill, DefaultBaseImage)
        container_id == ContainerId(sandbox_id)
    IN
    IF fail = "image" THEN w
    ELSE LET w1 == IF image_exists(w, image_tag) THEN w
                   ELSE [w EXCEPT !.imgs = @ \cup {image_tag}] IN
    IF fail = "create_mkdir" THEN w1
    ELSE LET w2 == Mkdir(w1, WorkspacePath(sandbox_id)) IN
    IF fail = "create" THEN w2
    ELSE LET w3 == [w2 EXCEPT !.conts =
                       SetKey(@, container_id, Container(sandbox_id, image_tag, "created"))] IN
    IF fail = "start" THEN w3
    ELSE LET w4 == [w3 EXCEPT !.conts[container_id].status = "running"] IN
    IF fail = "mkdir" THEN w4
    ELSE LET w5 == Mkdir(w4, LogsPath(sandbox_id)) IN
    IF fail = "metadata_open" THEN w5
    ELSE IF fail = "metadata_dump"
    THEN [w5 EXCEPT !.meta = SetKey(@, sandbox_id, CorruptMetadata)]
    ELSE [w5 EXCEPT !.meta =
             SetKey(@, sandbox_id, ContainerMetadata(container_id, image_tag))]

\* ContainerEnvironmentBuilder.create_environment; o: the outcomes of the
\* cleanup the except block runs.
ContainerEnvironmentBuilder_create_environment(w, skill, sandbox_id, fail, o) ==
    IF sandbox_id = "" THEN Built("ValueError", "empty id", w)
    ELSE IF Exists(w, SandboxPath(sandbox_id)) THEN Built("ValueError", "exists", w)
    ELSE LET b == ContainerEnvironmentBuilder_build(w, skill, sandbox_id, fail) IN
         IF fail = "none" THEN Built("", "", b)
         ELSE Built("RuntimeError", fail,
                    ContainerEnvironmentBuilder_cleanup(b, sandbox_id, o).w)

-----------------------------------------------------------------------------
(* SandboxManager.                                                         *)

\* Every id a caller may pass: those uuid4 can produce and one it never does.
CallIds == {ToString(i) : i \in 1..MaxIds} \cup {"nonexistent"}

\* str(uuid.uuid4()): 122 random bits, modelled as a value not drawn before
\* (the n-th draw is the numeral n+1).
uuid4_constant(n) == ToString(1)

uuid4(n) == ToString(n + 1)

\* sandbox_info as create_sandbox stores it.
SandboxInfo(sandbox_id, skill, mode, container_id, tools) ==
    [sandbox_id |-> sandbox_id, skill |-> skill, isolation_mode |-> mode,
     status |-> "active", container_id |-> container_id,
     workspace_path |-> WorkspacePath(sandbox_id), tools |-> tools]

SandboxToolsUnion(mode, skill, registry) == skill.tools \cup DOMAIN registry

\* The tool names create_sandbox records: in container mode the declared
\* names and the registered ones, in directory mode the names get_tool found.
SandboxTools(mode, skill, registry) ==
    IF mode = "container" THEN skill.tools \cup DOMAIN registry
    ELSE (skill.tools \cap DOMAIN registry) \cup DOMAIN registry

\* Whether constructing the tool instances raises (directory mode only).
ToolsRaise(mode, registry) ==
    mode = "directory" /\ \E n \in DOMAIN registry : get_tool(registry, n) = "raise"

store_always(reg, sandbox_id, info, raised) == SetKey(reg, sandbox_id, info)

\* self.active_sandboxes[sandbox_id] = sandbox_info, the last statement of
\* the try block: reached only when nothing raised.
store(reg, sandbox_id, info, raised) ==
    IF raised = "" THEN SetKey(reg, sandbox_id, info) ELSE reg

pop_kept(reg, sandbox_id) == reg

\* self.active_sandboxes.pop(sandbox_id)
pop(reg, sandbox_id) == Restrict(reg, DOMAIN reg \ {sandbox_id})

\* What create_sandbox does for the id uuid4 drew.
create_sandbox_result(reg, w, mode, registry, skill, sandbox_id, fail, o) ==
    LET b == IF mode = "container"
             THEN ContainerEnvironmentBuilder_create_environment(w, skill, sandbox_id, fail, o)
             ELSE EnvironmentBuilder_create_environment(w, skill, sandbox_id, fail, o.rm_ok)
        stage == IF b.err # "" THEN b.stage
                 ELSE IF ToolsRaise(mode, registry) THEN "tools" ELSE ""
        raised == IF stage = "" THEN "" ELSE "RuntimeError"
        info == SandboxInfo(sandbox_id, skill, mode,
                            IF mode = "container" THEN ContainerId(sandbox_id) ELSE "",
                            SandboxTools(mode, skill, registry))
    IN [reg |-> store(reg, sandbox_id, info, raised), w |-> b.w,
        raised |-> raised, stage |-> stage]

\* What cleanup_sandbox does; failed: the backend did not remove the
\* directory or the container.
cleanup_sandbox_result(reg, w, sandbox_id, o) ==
    IF sandbox_id \notin DOMAIN reg
    THEN [reg |-> reg, w |-> w, ret |-> FALSE, raised |-> "", failed |-> FALSE]
    ELSE LET info == reg[sandbox_id]
             c == IF info.isolation_mode = "container"
                  THEN ContainerEnvironmentBuilder_cleanup(w, sandbox_id, o)
                  ELSE EnvironmentBuilder_cleanup(w, sandbox_id, o.rm_ok)
             failed == \/ Exists(c.w, SandboxPath(sandbox_id))
                       \/ info.container_id \in DOMAIN c.w.conts
         IN IF c.err = ""
            THEN [reg |-> pop(reg, sandbox_id), w |-> c.w, ret |-> TRUE,
                  raised |-> "", failed |-> failed]
            ELSE [reg |-> reg, w |-> c.w, ret |-> FALSE,
                  raised |-> "RuntimeError", failed |-> failed]

\* What execute_tool does.
execute_tool_result(reg, w, sandbox_id, tool_name, args, exec_ok) ==
    IF sandbox_id \notin DOMAIN reg THEN [raised |-> "ValueError"] @@ Fail("not found", w)
    ELSE LET info == reg[sandbox_id] IN
    IF info.status # "active" THEN [raised |-> "ValueError"] @@ Fail("not active", w)
    ELSE IF tool_name \notin info.tools
    THEN [raised |-> "ValueError"] @@ Fail("not available", w)
    ELSE LET r == IF info.isolation_mode = "container"
                  THEN ContainerToolExecutor_execute_tool(w, info.container_id,
                                                          tool_name, args, exec_ok)
                  ELSE Tool_execute(w, tool_name, info.workspace_path, args)
         IN [raised |-> IF r.err = "" THEN "" ELSE "RuntimeError"] @@ r

\* cleanup_all over the ids still to visit; os: the outcomes per id.
RECURSIVE cleanup_all_result(_, _, _, _, _, _)
cleanup_all_result(reg, w, ids, os, count, failed) ==
    IF ids = {} THEN [reg |-> reg, w |-> w, count |-> count, failed |-> failed]
    ELSE LET sandbox_id == CHOOSE s \in ids : TRUE
             r == cleanup_sandbox_result(reg, w, sandbox_id, os[sandbox_id])
         IN cleanup_all_result(r.reg, r.w, ids \ {sandbox_id}, os,
                               IF r.ret THEN count + 1 ELSE count,
                               IF r.failed THEN failed \cup {sandbox_id} ELSE failed)

-----------------------------------------------------------------------------
(* The state machine.                                                      *)

\* The latest call: its operation and id argument, what it returned or
\* raised (stage: the step or cause), and for execute_tool the tool and the
\* path argument with the path it resolved to, relative to the workspace
\* root; for a cleanup the ids whose backend cleanup left something behind.
Last(op, id, ret, raised, stage, tool, arg, rel, listing, failed) ==
    [op |-> op, id |-> id, ret |-> ret, raised |-> raised, stage |-> stage,
     tool |-> tool, arg |-> arg, rel |-> rel, listing |-> listing, failed |-> failed]

SetWorld(w) ==
    /\ fs_dirs' = w.dirs
    /\ fs_files' = w.files
    /\ metadata' = w.meta
    /\ containers' = w.conts
    /\ images' = w.imgs

\* The record of writes is kept for the sandboxes whose directory exists.
WrittenIn(w, wr) ==
    [s \in DOMAIN wr |-> IF Exists(w, SandboxPath(s)) THEN wr[s] ELSE <<>>]

Contents == {"A", "B"}

\* No component call recorded.
NoCall == [op |-> "none"]

UuidIds == {ToString(i) : i \in 1..MaxIds}

\* Path arguments of the tool calls: f, f of a sibling sandbox by traversal,
\* and f by absolute host and container paths.
MainPaths ==
    {PathArg(FALSE, <<"f">>), PathArg(TRUE, ScriptBase \o <<"f">>)}
    \cup {PathArg(FALSE, <<"..", "..", x, "workspace", "f">>) : x \in UuidIds}
    \cup {PathArg(TRUE, WorkspacePath(x) \o <<"f">>) : x \in UuidIds}

NoArgs == ToolArgs(FALSE, EmptyPath, FALSE, "")

\* The arguments tried in SpecExec.
ExecArgs(tool_name) ==
    IF tool_name = "write_file"
    THEN {ToolArgs(TRUE, p, TRUE, c) : p \in MainPaths, c \in Contents}
    ELSE {ToolArgs(TRUE, p, FALSE, "") : p \in MainPaths} \cup {NoArgs}

\* The arguments tried in Spec: file f of the sandbox itself.
LifecycleArgs(tool_name) ==
    IF tool_name = "write_file" THEN {ToolArgs(TRUE, PathArg(FALSE, <<"f">>), TRUE, "A")}
    ELSE IF tool_name = "read_file" THEN {ToolArgs(TRUE, PathArg(FALSE, <<"f">>), FALSE, "")}
    ELSE {NoArgs}

ToolNames == SUPPORTED_TOOLS \cup {"web_search"}

\* The outcomes that matter to a cleanup in the given mode.
Outcomes(mode) ==
    IF mode = "container" THEN CleanupOutcomes
    ELSE {o \in CleanupOutcomes : o.stop_ok /\ o.remove_ok}

AllOk == [stop_ok |-> TRUE, remove_ok |-> TRUE, rm_ok |-> TRUE]

\* The outcomes tried for cleanup_sandbox(sandbox_id): they are consulted
\* only when the id is registered.
CleanupInputs(sandbox_id) ==
    IF sandbox_id \in DOMAIN active_sandboxes THEN Outcomes(isolation_mode) ELSE {AllOk}

\* The outcomes tried for the runtime's exec: it is reached only for a
\* supported tool of a registered container sandbox.
ExecInputs(sandbox_id, tool_name) ==
    IF /\ isolation_mode = "container"
       /\ sandbox_id \in DOMAIN active_sandboxes
       /\ tool_name \in SUPPORTED_TOOLS
    THEN BOOLEAN ELSE {TRUE}

\* The resolved path relative to the workspace root; <<>> when outside.
RelativePath(mode, base_path, arg) ==
    LET root == IF mode = "container" THEN ScriptBase ELSE base_path
        p == Resolve(Join(root, arg))
    IN IF IsPrefix(root, p) THEN SubSeq(p, Len(root) + 1, Len(p)) ELSE <<>>

\* What a create_sandbox call did about the image: the tag it computed and
\* whether it issued a build.
ImageUse(w, mode, skill, sandbox_id) ==
    IF mode = "container"
    THEN [image |-> generate_image_tag(skill, DefaultBaseImage),
          built |-> build_issued(w, skill, sandbox_id)]
    ELSE [image |-> NoImage, built |-> FALSE]

Init ==
    /\ isolation_mode \in {"directory", "container"}
    /\ active_sandboxes = <<>>
    /\ tool_registry = DefaultTools
    /\ uuid_count = 0
    /\ fs_dirs = {BasePath}
    /\ fs_files = <<>>
    /\ metadata = <<>>
    /\ containers = <<>>
    /\ images = {}
    /\ last = Last("init", "", "", "", "", "", EmptyPath, <<>>, {}, {})
    /\ returned = <<>>
    /\ cleaned = {}
    /\ written = [s \in CallIds |-> <<>>]
    /\ call = NoCall
    /\ exceeded_containers = <<>>
    /\ time = 0
    /\ pc = "main"

create_sandbox(skill, fail, o) ==
    /\ uuid_count < MaxIds
    /\ fail \in {"none"} \cup (IF isolation_mode = "container"
                               THEN ContainerSteps(World, skill)
                               ELSE DirectorySteps(skill))
    /\ \E sandbox_id \in {uuid4(uuid_count)} :
       \E r \in {create_sandbox_result(active_sandboxes, World, isolation_mode,
                                       tool_registry, skill, sandbox_id, fail, o)} :
          /\ active_sandboxes' = r.reg
          /\ SetWorld(r.w)
          /\ last' = Last("create_sandbox", sandbox_id,
                          IF r.raised = "" THEN sandbox_id ELSE "",
                          r.raised, r.stage, "", EmptyPath, <<>>, {}, {})
                     @@ ImageUse(World, isolation_mode, skill, sandbox_id)
                     @@ [rm_ok |-> o.rm_ok]
          /\ returned' = IF r.raised = "" THEN Append(returned, sandbox_id) ELSE returned
          /\ written' = WrittenIn(r.w, written)
    /\ uuid_count' = uuid_count + 1
    /\ UNCHANGED <<exceeded_containers, time,
                   call, isolation_mode, tool_registry, cleaned, pc>>

get_sandbox(sandbox_id) ==
    /\ last' = Last("get_sandbox", sandbox_id,
                    IF sandbox_id \in DOMAIN active_sandboxes THEN "info" ELSE "None",
                    "", "", "", EmptyPath, <<>>, {}, {})
    /\ UNCHANGED <<exceeded_containers, time,
                   call, isolation_mode, active_sandboxes, tool_registry, uuid_count,
                   fs_dirs, fs_files, metadata, containers, images, returned,
                   cleaned, written, pc>>

list_tools(sandbox_id) ==
    /\ last' = IF sandbox_id \in DOMAIN active_sandboxes
               THEN Last("list_tools", sandbox_id, "", "", "", "", EmptyPath, <<>>,
                         active_sandboxes[sandbox_id].tools, {})
               ELSE Last("list_tools", sandbox_id, "", "ValueError", "not found",
                         "", EmptyPath, <<>>, {}, {})
    /\ UNCHANGED <<exceeded_containers, time,
                   call, isolation_mode, active_sandboxes, tool_registry, uuid_count,
                   fs_dirs, fs_files, metadata, containers, images, returned,
                   cleaned, written, pc>>

\* execute_tool but for pc; exec_ok is an input of container mode only.
execute_tool_call(sandbox_id, tool_name, args, exec_ok) ==
    /\ exec_ok \/ isolation_mode = "container"
    /\ \E r \in {execute_tool_result(active_sandboxes, World, sandbox_id,
                                     tool_name, args, exec_ok)} :
       \E rel \in {IF sandbox_id \in DOMAIN active_sandboxes /\ r.raised = ""
                   THEN RelativePath(isolation_mode,
                                     active_sandboxes[sandbox_id].workspace_path,
                                     IF args.has_path THEN args.path
                                     ELSE PathArg(FALSE, <<".">>))
                   ELSE <<>>} :
          /\ SetWorld(r.w)
          /\ last' = Last("execute_tool", sandbox_id, r.ret, r.raised, r.err,
                          tool_name, args.path, rel, r.listing, {})
          /\ written' = IF tool_name = "write_file" /\ r.raised = ""
                        THEN [written EXCEPT ![sandbox_id] = SetKey(@, rel, args.content)]
                        ELSE written
    /\ UNCHANGED <<exceeded_containers, time,
                   call, isolation_mode, active_sandboxes, tool_registry, uuid_count,
                   returned, cleaned>>

execute_tool(sandbox_id, tool_name, args, exec_ok) ==
    /\ execute_tool_call(sandbox_id, tool_name, args, exec_ok)
    /\ UNCHANGED pc

cleanup_sandbox(sandbox_id, o) ==
    /\ \E r \in {cleanup_sandbox_result(active_sandboxes, World, sandbox_id, o)} :
          /\ active_sandboxes' = r.reg
          /\ SetWorld(r.w)
          /\ last' = Last("cleanup_sandbox", sandbox_id,
                          IF r.raised # "" THEN "" ELSE IF r.ret THEN "True" ELSE "False",
                          r.raised, "", "", EmptyPath, <<>>, {},
                          IF r.failed THEN {sandbox_id} ELSE {})
          /\ cleaned' = IF r.ret THEN cleaned \cup {sandbox_id} ELSE cleaned
          /\ written' = WrittenIn(r.w, written)
    /\ UNCHANGED <<exceeded_containers, time,
                   call, isolation_mode, tool_registry, uuid_count, returned, pc>>

cleanup_all(os) ==
    /\ \E r \in {cleanup_all_result(active_sandboxes, World, DOMAIN active_sandboxes,
                                     os, 0, {})} :
          /\ active_sandboxes' = r.reg
          /\ SetWorld(r.w)
          /\ last' = Last("cleanup_all", "", ToString(r.count), "", "", "", EmptyPath,
                          <<>>, {}, r.failed)
          /\ cleaned' = cleaned \cup (DOMAIN active_sandboxes \ DOMAIN r.reg)
          /\ written' = WrittenIn(r.w, written)
    /\ UNCHANGED <<exceeded_containers, time,
                   call, isolation_mode, tool_registry, uuid_count, returned, pc>>

\* tool_registry.register("custom", tool_class)
register(tool_class) ==
    /\ tool_registry' = SetKey(tool_registry, "custom", tool_class)
    /\ last' = Last("register", "", "", "", "", "custom", EmptyPath, <<>>, {}, {})
    /\ UNCHANGED <<exceeded_containers, time,
                   call, isolation_mode, active_sandboxes, uuid_count, fs_dirs, fs_files,
                   metadata, containers, images, returned, cleaned, written, pc>>

\* tool_registry.unregister("custom")
unregister ==
    /\ tool_registry' = Restrict(tool_registry, DOMAIN tool_registry \ {"custom"})
    /\ last' = Last("unregister", "", "", "", "", "custom", EmptyPath, <<>>, {}, {})
    /\ UNCHANGED <<exceeded_containers, time,
                   call, isolation_mode, active_sandboxes, uuid_count, fs_dirs, fs_files,
                   metadata, containers, images, returned, cleaned, written, pc>>

\* The rollback inside create_environment finds no readable metadata, so
\* of the cleanup outcomes only rmtree's reaches it.
RollbackOutcomes == Outcomes("directory")

Next ==
    \/ \E skill \in Skills, o \in RollbackOutcomes,
          fail \in {"none", "image", "create_mkdir", "create", "start", "mkdir",
                    "mkdir_logs", "venv", "install", "metadata", "metadata_open",
                    "metadata_dump"} : create_sandbox(skill, fail, o)
    \/ \E sandbox_id \in CallIds : get_sandbox(sandbox_id)
    \/ \E sandbox_id \in CallIds : list_tools(sandbox_id)
    \/ \E sandbox_id \in CallIds, tool_name \in {"read_file", "write_file", "web_search"} :
          \E args \in LifecycleArgs(tool_name), exec_ok \in ExecInputs(sandbox_id, tool_name) :
              execute_tool(sandbox_id, tool_name, args, exec_ok)
    \/ \E sandbox_id \in CallIds :
          \E o \in CleanupInputs(sandbox_id) : cleanup_sandbox(sandbox_id, o)
    \/ \E os \in [DOMAIN active_sandboxes -> Outcomes(isolation_mode)] : cleanup_all(os)
    \/ \E tool_class \in ToolClasses : register(tool_class)
    \/ unregister

Spec == Init /\ [][Next]_vars

-----------------------------------------------------------------------------
(* SpecExec: tool calls on two live sandboxes.                             *)

EmptyWorld == [dirs |-> {BasePath}, files |-> <<>>, meta |-> <<>>,
               conts |-> <<>>, imgs |-> {}]

\* The manager after two successful create_sandbox calls.
TwoSandboxes(mode) ==
    CHOOSE r2 \in {create_sandbox_result(r1.reg, r1.w, mode, DefaultTools, skill,
                                         uuid4(1), "none", AllOk) :
                       r1 \in {create_sandbox_result(<<>>, EmptyWorld, mode, DefaultTools,
                                                     skill, uuid4(0), "none", AllOk) :
                                   skill \in Skills},
                       skill \in Skills} : TRUE

InitExec ==
    /\ isolation_mode \in {"directory", "container"}
    /\ \E r \in {TwoSandboxes(isolation_mode)} :
          /\ active_sandboxes = r.reg
          /\ fs_dirs = r.w.dirs
          /\ fs_files = r.w.files
          /\ metadata = r.w.meta
          /\ containers = r.w.conts
          /\ images = r.w.imgs
    /\ tool_registry = DefaultTools
    /\ uuid_count = Len(<<uuid4(0), uuid4(1)>>)
    /\ last = Last("create_sandbox", uuid4(1), uuid4(1), "", "", "", EmptyPath,
                   <<>>, {}, {})
    /\ returned = <<uuid4(0), uuid4(1)>>
    /\ cleaned = {}
    /\ written = [s \in CallIds |-> <<>>]
    /\ call = NoCall
    /\ exceeded_containers = <<>>
    /\ time = 0
    /\ pc = "main"

NextExec ==
    \E sandbox_id \in UuidIds, tool_name \in ToolNames :
        \E args \in ExecArgs(tool_name), exec_ok \in ExecInputs(sandbox_id, tool_name) :
            execute_tool(sandbox_id, tool_name, args, exec_ok)

SpecExec == InitExec /\ [][NextExec]_vars

-----------------------------------------------------------------------------
(* SpecPath: one tool call with an arbitrary path argument, in the first   *)
(* of two live sandboxes, each holding a file f; the runtime runs the      *)
(* script.                                                                 *)

File == <<"f">>

\* The world after write_file(f, "A") in the first sandbox and
\* write_file(f, "B") in the second.
PathWorld(w) ==
    WriteFile(WriteFile(w, WorkspacePath(uuid4(0)) \o File, "A"),
              WorkspacePath(uuid4(1)) \o File, "B")

PathComponents == {"..", ".", "f", "sb", "workspace", "logs", uuid4(0), uuid4(1)}

RECURSIVE SeqsUpTo(_, _)
SeqsUpTo(S, n) ==
    IF n = 0 THEN {<<>>}
    ELSE LET shorter == SeqsUpTo(S, n - 1)
         IN shorter \cup {Append(q, x) : q \in shorter, x \in S}

\* Every path argument of at most MaxPathLen components.
PathArgs == {PathArg(abs, parts) : abs \in BOOLEAN,
                                   parts \in SeqsUpTo(PathComponents, MaxPathLen)}
            \ {PathArg(TRUE, <<>>)}

PathToolArgs(tool_name) ==
    {ToolArgs(TRUE, p, tool_name = "write_file",
              IF tool_name = "write_file" THEN "C" ELSE "") : p \in PathArgs \ {EmptyPath}}

InitPath ==
    /\ isolation_mode \in {"directory", "container"}
    /\ \E r \in {TwoSandboxes(isolation_mode)} :
       \E w \in {PathWorld(r.w)} :
          /\ active_sandboxes = r.reg
          /\ fs_dirs = w.dirs
          /\ fs_files = w.files
          /\ metadata = w.meta
          /\ containers = w.conts
          /\ images = w.imgs
    /\ tool_registry = DefaultTools
    /\ uuid_count = Len(<<uuid4(0), uuid4(1)>>)
    /\ last = Last("execute_tool", uuid4(1), "written", "", "", "write_file",
                   PathArg(FALSE, File), File, {}, {})
    /\ returned = <<uuid4(0), uuid4(1)>>
    /\ cleaned = {}
    /\ written = [s \in CallIds |-> IF s = uuid4(0) THEN SetKey(<<>>, File, "A")
                                     ELSE IF s = uuid4(1) THEN SetKey(<<>>, File, "B")
                                     ELSE <<>>]
    /\ call = NoCall
    /\ exceeded_containers = <<>>
    /\ time = 0
    /\ pc = "call"

execute_tool_once(tool_name, args) ==
    /\ pc = "call"
    /\ execute_tool_call(uuid4(0), tool_name, args, TRUE)
    /\ pc' = "done"

NextPath ==
    /\ pc = "call"
    /\ \E tool_name \in SUPPORTED_TOOLS :
          \E args \in PathToolArgs(tool_name) : execute_tool_once(tool_name, args)

SpecPath == InitPath /\ [][NextPath]_vars

-----------------------------------------------------------------------------
(* SpecImage: one call of DockerImageBuilder._generate_image_tag, on any   *)
(* skill of a bounded family.                                              *)

\* Longest package list a skill declares in SpecImage.
MaxPackages == 2

\* "a b" and "A_b" sanitize to the same name, "ab" to another.
SkillNames == {<<"a", " ", "b">>, <<"A", "_", "b">>, <<"a", "b">>}

PythonVersions == {"", "3.11"}

BaseImages == {DefaultBaseImage, "python:3.12-slim"}

\* Python packages: every list over PackageNames; system packages: lists
\* of "a".
ImageSkills ==
    {Skill(name, {}, python_version, packages, system_packages) :
        name \in SkillNames, python_version \in PythonVersions,
        packages \in SeqsUpTo(DOMAIN PackageNames, MaxPackages),
        system_packages \in SeqsUpTo({1}, MaxPackages)}

InitImage ==
    /\ Init
    /\ isolation_mode = "container"

\* image_builder._generate_image_tag(skill, base_image)
generate_image_tag_call(skill, base_image) ==
    /\ call = NoCall
    /\ call' = [op |-> "_generate_image_tag", skill |-> skill,
                base_image |-> base_image,
                requirements |-> requirements_to_string(skill, base_image),
                tag |-> generate_image_tag(skill, base_image)]
    /\ UNCHANGED <<exceeded_containers, time,
                   isolation_mode, active_sandboxes, tool_registry, uuid_count,
                   fs_dirs, fs_files, metadata, containers, images, last,
                   returned, cleaned, written, pc>>

NextImage ==
    /\ call = NoCall
    /\ \E skill \in ImageSkills, base_image \in BaseImages :
           generate_image_tag_call(skill, base_image)

SpecImage == InitImage /\ [][NextImage]_vars

-----------------------------------------------------------------------------
(* SpecBuild: container sandboxes created one after the other while images *)
(* may be removed from the runtime in between.                             *)

\* docker_client.images.remove(tag, force=True)
images_remove(tag) ==
    /\ images' = images \ {tag}
    /\ last' = Last("images.remove", "", "", "", "", "", EmptyPath, <<>>, {}, {})
    /\ UNCHANGED <<exceeded_containers, time,
                   call, isolation_mode, active_sandboxes, tool_registry,
                   uuid_count, fs_dirs, fs_files, metadata, containers, returned,
                   cleaned, written, pc>>

NextBuild ==
    \/ \E skill \in Skills, o \in RollbackOutcomes,
          fail \in {"none", "image", "create_mkdir", "create", "start", "mkdir",
                    "metadata_open", "metadata_dump"} : create_sandbox(skill, fail, o)
    \/ \E tag \in images : images_remove(tag)

SpecBuild == InitImage /\ [][NextBuild]_vars

-----------------------------------------------------------------------------
(* SpecBuilder: create_environment of the configured backend called        *)
(* directly, with any id, beside two live sandboxes that each hold f.      *)

\* The ids tried: the empty one, those of the live sandboxes, a new one.
BuilderIds == {"", uuid4(0), uuid4(1), uuid4(2)}

\* builder.create_environment(skill, sandbox_id)
create_environment_call(skill, sandbox_id, fail, o) ==
    /\ fail \in {"none"} \cup (IF isolation_mode = "container"
                               THEN ContainerSteps(World, skill)
                               ELSE DirectorySteps(skill))
    /\ \E b \in {IF isolation_mode = "container"
                  THEN ContainerEnvironmentBuilder_create_environment(
                           World, skill, sandbox_id, fail, o)
                  ELSE EnvironmentBuilder_create_environment(
                           World, skill, sandbox_id, fail, o.rm_ok)} :
          /\ SetWorld(b.w)
          /\ call' = [op |-> "create_environment", sandbox_id |-> sandbox_id,
                      err |-> b.err, stage |-> b.stage]
    /\ UNCHANGED <<exceeded_containers, time,
                   isolation_mode, active_sandboxes, tool_registry, uuid_count,
                   last, returned, cleaned, written, pc>>

NextBuilder ==
    \E skill \in Skills, sandbox_id \in BuilderIds, o \in RollbackOutcomes,
       fail \in {"none", "image", "create_mkdir", "create", "start", "mkdir",
                 "mkdir_logs", "venv", "install", "metadata", "metadata_open",
                 "metadata_dump"} : create_environment_call(skill, sandbox_id, fail, o)

SpecBuilder == InitPath /\ [][NextBuilder]_vars

-----------------------------------------------------------------------------
(* SpecResult: what ContainerToolExecutor.execute_tool makes of the        *)
(* execution result the container manager hands back.                      *)

\* A JSON document on standard output.  An object carries the keys
\* "success", "result" and "error", each "absent" or one of the values
\* tried; the other documents are a list, a number, null and a string.
JsonDocuments ==
    {[type |-> "object", success |-> success, result |-> result, error |-> error] :
        success \in {"absent", "true", "false"},
        result \in {"absent", "content", "items"},
        error \in {"absent", "dict", "string"}}
    \cup {[type |-> t] : t \in {"list", "number", "null", "string"}}

\* Standard output: nothing, white space, text that is not JSON, or a JSON
\* document.
Stdouts ==
    {[kind |-> k] : k \in {"empty", "blank", "text"}}
    \cup {[kind |-> "json", doc |-> d] : d \in JsonDocuments}

\* The dictionary execute_in_container returns; error "" stands for None.
ExecutionResults ==
    [exit_code : {0, 1}, stdout : Stdouts, error : {"", "Command failed"}]

\* What the executor does with a result: the exception it raises ("" for
\* none) and the value it returns.
Outcome(raised, ret) == [raised |-> raised, ret |-> ret]

\* _execute_script_in_container after execute_in_container returned.
execute_script_in_container(result) ==
    IF result.error # "" THEN Outcome("RuntimeError", "")
    ELSE IF result.exit_code # 0 THEN Outcome("RuntimeError", "")
    ELSE Outcome("", "")

\* _deserialize_result
deserialize_result(result) ==
    IF result.stdout.kind \in {"empty", "blank"} THEN Outcome("RuntimeError", "")
    ELSE IF result.stdout.kind = "text" THEN Outcome("RuntimeError", "")
    ELSE LET output_data == result.stdout.doc IN
         IF output_data.type # "object" THEN Outcome("AttributeError", "")
         ELSE IF output_data.success # "true" THEN Outcome("RuntimeError", "")
         ELSE Outcome("", IF output_data.result = "absent" THEN "None"
                          ELSE output_data.result)

\* ContainerToolExecutor.execute_tool of a supported tool, given the result
\* of the exec.
executor_execute_tool(result) ==
    /\ call = NoCall
    /\ \E ran \in {execute_script_in_container(result)} :
       \E o \in {IF ran.raised # "" THEN ran ELSE deserialize_result(result)} :
          call' = [op |-> "executor.execute_tool", result |-> result,
                   raised |-> o.raised, ret |-> o.ret]
    /\ UNCHANGED <<exceeded_containers, time,
                   isolation_mode, active_sandboxes, tool_registry, uuid_count,
                   fs_dirs, fs_files, metadata, containers, images, last,
                   returned, cleaned, written, pc>>

NextResult ==
    /\ call = NoCall
    /\ \E result \in ExecutionResults : executor_execute_tool(result)

SpecResult == InitImage /\ [][NextResult]_vars

-----------------------------------------------------------------------------
(* SpecScript: one run of a generated script in the container of the first *)
(* of two live sandboxes, statement by statement: what it prints and how   *)
(* it exits.                                                               *)

\* json.dumps({"success": ..., "result" or "error": ...})
Envelope(success, value) == [success |-> success, value |-> value]

\* print(envelope)
print(run, envelope) == [run EXCEPT !.out = Append(@, envelope)]

sys_exit_skipped(run, code) == run

\* sys.exit(code): nothing after it runs.
sys_exit(run, code) == [run EXCEPT !.exited = TRUE, !.exit_code = code]

\* The script _create_tool_script generates for tool_name, run on world w
\* with /workspace bound to `bind`: the validation of the path argument,
\* the containment check, then the operation inside try/except; each prints
\* an envelope, the first two exit after it.  A script that reaches its end
\* exits with code 0.
script_run(w, tool_name, bind, args) ==
    LET start == [out |-> <<>>, exit_code |-> 0, exited |-> FALSE, w |-> w]
        arg == IF args.has_path THEN args.path
               ELSE IF tool_name = "list_files" THEN PathArg(FALSE, <<".">>)
               ELSE EmptyPath
        validated ==
            IF tool_name # "list_files" /\ arg = EmptyPath
            THEN sys_exit(print(start, Envelope(FALSE, "ValueError:invalid")), 0)
            ELSE start
        target == ScriptTarget(arg)
        contained ==
            IF validated.exited THEN validated
            ELSE IF ~ScriptWithin(target)
            THEN sys_exit(print(validated, Envelope(FALSE, "ValueError:outside sandbox")), 0)
            ELSE validated
        r == CASE tool_name = "read_file" -> FsRead(w, BindPath(bind, target))
               [] tool_name = "write_file" ->
                      FsWrite(w, BindPath(bind, target),
                              IF args.has_content THEN args.content ELSE "")
               [] tool_name = "list_files" -> FsList(w, BindPath(bind, target))
    IN IF contained.exited THEN contained
       ELSE print([contained EXCEPT !.w = r.w],
                  IF r.err = "" THEN Envelope(TRUE, [ret |-> r.ret, listing |-> r.listing])
                  ELSE Envelope(FALSE, r.err))

\* The argument sets tried: every path, no arguments, the empty path.
ScriptArgs(tool_name) ==
    PathToolArgs(tool_name) \cup {NoArgs, ToolArgs(TRUE, EmptyPath, FALSE, "")}

InitScript ==
    /\ InitPath
    /\ isolation_mode = "container"

\* python -c <script> in the container of the first sandbox.
run_script(tool_name, args) ==
    /\ pc = "call"
    /\ \E run \in {script_run(World, tool_name,
                               containers[ContainerId(uuid4(0))].bind, args)} :
          /\ SetWorld(run.w)
          /\ call' = [op |-> "script", tool |-> tool_name, args |-> args,
                      out |-> run.out, exit_code |-> run.exit_code]
    /\ pc' = "done"
    /\ UNCHANGED <<exceeded_containers, time,
                   isolation_mode, active_sandboxes, tool_registry, uuid_count,
                   last, returned, cleaned, written>>

NextScript ==
    /\ pc = "call"
    /\ \E tool_name \in SUPPORTED_TOOLS :
          \E args \in ScriptArgs(tool_name) : run_script(tool_name, args)

SpecScript == InitScript /\ [][NextScript]_vars

-----------------------------------------------------------------------------
(* SpecRuntime: ContainerManager and DockerImageBuilder called directly on *)
(* a runtime that holds the containers of the sandboxes 1, 12 and 2 and a  *)
(* container of somebody else.  Names and sandbox ids are sequences of     *)
(* characters; str.startswith is IsPrefix.                                 *)

\* f"sandbox-{sandbox_id}"
ContainerName(sandbox_id) == <<"s", "a", "n", "d", "b", "o", "x", "-">> \o sandbox_id

\* An image as images.list(all=True) shows it.  attrs["Created"] is a date
\* (a day number), absent, or a string fromisoformat cannot parse.
Image(id, tags, kind, day) ==
    [id |-> id, tags |-> tags, Created |-> [kind |-> kind, day |-> day]]

InitRuntime ==
    /\ isolation_mode = "container"
    /\ active_sandboxes = <<>>
    /\ tool_registry = DefaultTools
    /\ uuid_count = 0
    /\ fs_dirs = {BasePath}
    /\ fs_files = <<>>
    /\ metadata = <<>>
    /\ \E status \in {[id \in {"c1", "c12", "c2", "db"} |->
                            IF id = "c1" THEN c1 ELSE "running"] :
                           c1 \in {"running", "exited"}} :
          containers =
              [id \in DOMAIN status |->
                  [name |-> CASE id = "c1" -> ContainerName(<<"1">>)
                              [] id = "c12" -> ContainerName(<<"1", "2">>)
                              [] id = "c2" -> ContainerName(<<"2">>)
                              [] OTHER -> <<"s", "a", "n", "d", "b", "o", "x", "d", "b">>,
                   status |-> status[id]]]
    /\ images = {Image("old", {"skill-old"}, "date", 0),
                 Image("new", {"skill-new"}, "date", 9),
                 Image("two", {"skill-two", "latest"}, "date", 0),
                 Image("undated", {"skill-undated"}, "absent", 0),
                 Image("garbled", {"skill-garbled"}, "invalid", 0),
                 Image("base", {"python"}, "date", 0)}
    /\ last = Last("init", "", "", "", "", "", EmptyPath, <<>>, {}, {})
    /\ returned = <<>>
    /\ cleaned = {}
    /\ written = [s \in CallIds |-> <<>>]
    /\ call = NoCall
    /\ exceeded_containers = <<>>
    /\ time = 0
    /\ pc = "main"

execute_in_container_unchecked(container_id, command_ok, exec) ==
    /\ call' = [op |-> "execute_in_container", container_id |-> container_id,
                raised |-> IF container_id = "" \/ ~command_ok THEN "ValueError"
                           ELSE IF container_id \notin DOMAIN containers THEN "NotFound"
                           ELSE IF exec = "raise" THEN "APIError" ELSE "",
                exec_run |-> container_id \in DOMAIN containers /\ command_ok,
                result |-> exec]
    /\ UNCHANGED <<exceeded_containers, time, isolation_mode, active_sandboxes,
                   tool_registry, uuid_count, fs_dirs, fs_files, metadata,
                   containers, images, last, returned, cleaned, written, pc>>

\* ContainerManager.execute_in_container(container_id, command); exec is what
\* container.exec_run does: "raise" (APIError), "exit0" or "exit1".
execute_in_container(container_id, command_ok, exec) ==
    /\ \E exec_run \in {/\ container_id # ""
                        /\ command_ok
                        /\ container_id \in DOMAIN containers
                        /\ containers[container_id].status = "running"} :
          call' = [op |-> "execute_in_container", container_id |-> container_id,
                   raised |-> IF container_id = "" \/ ~command_ok THEN "ValueError"
                              ELSE IF container_id \notin DOMAIN containers
                              THEN "NotFound"
                              ELSE IF ~exec_run \/ exec = "raise" THEN "APIError"
                              ELSE "",
                   exec_run |-> exec_run,
                   result |-> IF exec_run /\ exec # "raise"
                              THEN [exit_code |-> IF exec = "exit0" THEN 0 ELSE 1,
                                    error |-> IF exec = "exit0" THEN ""
                                              ELSE "Command exited with code 1"]
                              ELSE [exit_code |-> -1, error |-> ""]]
    /\ UNCHANGED <<exceeded_containers, time, isolation_mode, active_sandboxes,
                   tool_registry, uuid_count, fs_dirs, fs_files, metadata,
                   containers, images, last, returned, cleaned, written, pc>>

\* ContainerManager.remove_container(container_id, force=True)
remove_container_call(container_id, remove_ok) ==
    /\ \E r \in {remove_container(World, container_id, remove_ok)} :
          /\ containers' = IF container_id = "" THEN containers ELSE r.w.conts
          /\ call' = [op |-> "remove_container", container_id |-> container_id,
                      remove_ok |-> remove_ok,
                      raised |-> IF container_id = "" THEN "ValueError"
                                 ELSE IF r.ok THEN "" ELSE "APIError"]
    /\ UNCHANGED <<exceeded_containers, time, isolation_mode, active_sandboxes,
                   tool_registry, uuid_count, fs_dirs, fs_files, metadata, images,
                   last, returned, cleaned, written, pc>>

\* ContainerManager.list_containers(sandbox_id, all_containers); a
\* sandbox_id of None or "" is <<>>.  A failing containers.list gives [].
list_containers(w, sandbox_id, all_containers, list_ok) ==
    IF ~list_ok THEN {}
    ELSE {id \in DOMAIN w.conts :
            /\ all_containers \/ w.conts[id].status = "running"
            /\ IsPrefix(ContainerName(sandbox_id), w.conts[id].name)}

\* ContainerManager.cleanup_containers(sandbox_id); os: per container, what
\* the runtime does with the stop and with the forced removal.
cleanup_containers(sandbox_id, list_ok, os) ==
    \E listed \in {list_containers(World, sandbox_id, TRUE, list_ok)} :
    \E after \in {[id \in listed |->
                     remove_container(stop_container(World, id, os[id].stop_ok).w,
                                      id, os[id].remove_ok)]} :
       /\ containers' =
              [id \in {c \in DOMAIN containers :
                          c \in listed => c \in DOMAIN after[c].w.conts} |->
                  IF id \in listed THEN after[id].w.conts[id] ELSE containers[id]]
       /\ call' = [op |-> "cleanup_containers", sandbox_id |-> sandbox_id,
                   listed |-> listed,
                   ret |-> Cardinality({id \in listed : after[id].ok})]
       /\ UNCHANGED <<exceeded_containers, time, isolation_mode, active_sandboxes,
                      tool_registry, uuid_count, fs_dirs, fs_files, metadata,
                      images, last, returned, cleaned, written, pc>>

\* DockerImageBuilder.cleanup_unused_images(older_than_days, keep_tags) run
\* on day today; failing: the images whose removal the runtime refuses.
cleanup_unused_images(older_than_days, keep_tags, today, list_ok, failing) ==
    /\ \E candidates \in
            {{image \in images :
                 /\ list_ok
                 /\ image.tags \cap keep_tags = {}
                 /\ image.Created.kind # "invalid"
                 /\ image.Created.kind = "date" =>
                        ~(image.Created.day > today - older_than_days)}} :
       \E removed \in {{image \in candidates : image.id \notin failing}} :
          /\ images' = images \ removed
          /\ call' = [op |-> "cleanup_unused_images",
                      older_than_days |-> older_than_days, keep_tags |-> keep_tags,
                      today |-> today, failing |-> failing,
                      ret |-> Cardinality(removed)]
    /\ UNCHANGED <<exceeded_containers, time, isolation_mode, active_sandboxes,
                   tool_registry, uuid_count, fs_dirs, fs_files, metadata,
                   containers, last, returned, cleaned, written, pc>>

NextRuntime ==
    \/ \E container_id \in {"", "c1", "c12", "c2", "db", "gone"},
          command_ok \in BOOLEAN, exec \in {"raise", "exit0", "exit1"} :
           execute_in_container(container_id, command_ok, exec)
    \/ \E container_id \in {"", "c1", "c12", "c2", "db", "gone"},
          remove_ok \in BOOLEAN : remove_container_call(container_id, remove_ok)
    \/ \E sandbox_id \in {<<>>, <<"1">>, <<"1", "2">>, <<"2">>, <<"3">>},
          list_ok \in BOOLEAN,
          os \in [{"c1", "c12", "c2", "db"} ->
                     {[stop_ok |-> TRUE, remove_ok |-> TRUE],
                      [stop_ok |-> FALSE, remove_ok |-> TRUE],
                      [stop_ok |-> TRUE, remove_ok |-> FALSE]}] :
           cleanup_containers(sandbox_id, list_ok, os)

SpecRuntime == InitRuntime /\ [][NextRuntime]_vars

\* SpecSweep: image sweeps on day 10 and the days after it.
NextSweep ==
    \E older_than_days \in {0, 5, 30},
       keep_tags \in {{}, {"latest"}, {"skill-old", "skill-new"}},
       today \in {10, 20}, list_ok \in BOOLEAN,
       failing \in {{}, {"old"}, {"two", "undated"}} :
        cleanup_unused_images(older_than_days, keep_tags, today, list_ok, failing)

SpecSweep == InitRuntime /\ [][NextSweep]_vars

-----------------------------------------------------------------------------
(* SpecResource: ResourceManager on the same runtime.  A stats sample is   *)
(* the part of container.stats() the code reads; percentages are kept in   *)
(* hundredths of a percent, which is what round(x, 2) leaves of them.       *)
(* limits.cpus counts half cores and limits.memory bytes; 0 is None.        *)

\* Most violations ever counted for one container.
MaxCount == 2
\* Latest clock value (seconds).
MaxTime == 1

\* round(n / d, 2) of a percentage n / d given in hundredths; no sample of
\* Samples lies halfway between two hundredths.
Round(n, d) == (2 * n + d) \div (2 * d)

\* ResourceManager.get_container_stats, from the sample on.
get_container_stats(sample) ==
    [cpu_percent |->
         IF sample.system_delta > 0 /\ sample.cpu_delta > 0
         THEN LET num_cpus == IF sample.num_cpus = 0 THEN 1 ELSE sample.num_cpus
                  n == sample.cpu_delta * num_cpus * 10000
              IN IF n > 10000 * sample.system_delta THEN 10000
                 ELSE Round(n, sample.system_delta)
         ELSE 0,
     memory_usage |-> sample.memory_usage,
     memory_limit |-> sample.memory_limit,
     memory_percent |->
         IF sample.memory_limit > 0
         THEN Round(sample.memory_usage * 10000, sample.memory_limit) ELSE 0,
     pids |-> sample.pids]

\* enforce_limits: the limits the stats exceed.
violations(stats, limits) ==
    {v \in {"cpu", "memory", "memory_percent", "pids"} :
        \/ v = "cpu" /\ limits.cpus # 0 /\ stats.cpu_percent > limits.cpus * 5000
        \/ v = "memory" /\ limits.memory # 0 /\ stats.memory_usage > limits.memory
        \/ /\ v = "memory_percent" /\ limits.memory # 0
           /\ stats.memory_limit > 0 /\ stats.memory_percent > 9500
        \/ v = "pids" /\ limits.pids_limit # 0 /\ stats.pids > limits.pids_limit}

track_restart(tracking, container_id, now) ==
    SetKey(tracking, container_id, [first_exceeded |-> now, exceeded_count |-> 1])

track_skipped(tracking, container_id, now) == tracking

\* enforce_limits, "Track violation".
track(tracking, container_id, now) ==
    IF container_id \in DOMAIN tracking
    THEN [tracking EXCEPT ![container_id].exceeded_count = @ + 1]
    ELSE SetKey(tracking, container_id, [first_exceeded |-> now, exceeded_count |-> 1])

enforce_action_escalated(conts, container_id, action_on_exceed, stop_ok) ==
    [action_taken |-> "stopped",
     conts |-> [conts EXCEPT ![container_id].status = "exited"]]

\* enforce_limits, "Take action based on action_on_exceed"; stop_ok: the
\* runtime carries out the stop or kill.
enforce_action(conts, container_id, action_on_exceed, stop_ok) ==
    CASE action_on_exceed = "log" -> [action_taken |-> "logged", conts |-> conts]
      [] action_on_exceed = "warn" -> [action_taken |-> "warned", conts |-> conts]
      [] OTHER ->
          IF container_id \in DOMAIN conts /\ stop_ok
          THEN [action_taken |-> IF action_on_exceed = "stop" THEN "stopped"
                                 ELSE "killed",
                conts |-> [conts EXCEPT ![container_id].status = "exited"]]
          ELSE [action_taken |-> IF action_on_exceed = "stop" THEN "stop_failed"
                                 ELSE "kill_failed",
                conts |-> conts]

\* ResourceManager.enforce_limits(container_id, config, action_on_exceed);
\* sample.error: container.stats raises APIError.
enforce_limits(container_id, sample, limits, action_on_exceed, stop_ok) ==
    /\ \E raised \in {IF \/ container_id = ""
                         \/ action_on_exceed \notin {"log", "warn", "stop", "kill"}
                      THEN "ValueError"
                      ELSE IF container_id \notin DOMAIN containers THEN "NotFound"
                      ELSE IF sample.error THEN "APIError" ELSE ""},
          stats \in {get_container_stats(sample)} :
       \E exceeded \in {raised = "" /\ violations(stats, limits) # {}} :
       \E done \in {IF exceeded
                    THEN enforce_action(containers, container_id, action_on_exceed,
                                        stop_ok)
                    ELSE [action_taken |-> "none", conts |-> containers]} :
          /\ exceeded /\ container_id \in DOMAIN exceeded_containers =>
                 exceeded_containers[container_id].exceeded_count < MaxCount
          /\ exceeded_containers' =
                 IF raised # "" THEN exceeded_containers
                 ELSE IF exceeded THEN track(exceeded_containers, container_id, time)
                 ELSE Restrict(exceeded_containers,
                               DOMAIN exceeded_containers \ {container_id})
          /\ containers' = done.conts
          /\ call' = [op |-> "enforce_limits", container_id |-> container_id,
                      action |-> action_on_exceed, raised |-> raised,
                      cpu_delta |-> sample.cpu_delta,
                      system_delta |-> sample.system_delta,
                      num_cpus |-> IF sample.num_cpus = 0 THEN 1 ELSE sample.num_cpus,
                      cpus |-> limits.cpus,
                      exceeded |-> exceeded,
                      violations |-> IF raised = "" THEN violations(stats, limits)
                                     ELSE {},
                      action_taken |-> done.action_taken]
    /\ UNCHANGED <<time, isolation_mode, active_sandboxes, tool_registry, uuid_count,
                   fs_dirs, fs_files, metadata, images, last, returned, cleaned,
                   written, pc>>

should_cleanup_all(info, current_time, exceeded_duration, max_exceeded_count) == TRUE

\* cleanup_exceeded_containers, "Find containers that meet cleanup criteria".
should_cleanup(info, current_time, exceeded_duration, max_exceeded_count) ==
    \/ current_time - info.first_exceeded >= exceeded_duration
    \/ info.exceeded_count >= max_exceeded_count

cleanup_outcome_lenient(conts, container_id, stop_ok) == "ok"

\* cleanup_exceeded_containers, the try block run for one selected
\* container: "ok", "NotFound" or "error" (any other exception).
cleanup_outcome(conts, container_id, stop_ok) ==
    IF container_id \notin DOMAIN conts THEN "NotFound"
    ELSE IF stop_ok THEN "ok" ELSE "error"

\* ResourceManager.cleanup_exceeded_containers(exceeded_duration,
\* max_exceeded_count, action); stop_ok: per container, whether the runtime
\* carries out the stop or kill.
cleanup_exceeded_containers(exceeded_duration, max_exceeded_count, action, stop_ok) ==
    /\ IF action \notin {"stop", "kill"}
       THEN /\ call' = [op |-> "cleanup_exceeded_containers", action |-> action,
                        exceeded_duration |-> exceeded_duration,
                        max_exceeded_count |-> max_exceeded_count,
                        raised |-> "ValueError", attempted |-> {}, stop_ok |-> stop_ok,
                        ret |-> {}]
            /\ UNCHANGED <<exceeded_containers, containers>>
       ELSE \E containers_to_cleanup \in
                 {{id \in DOMAIN exceeded_containers :
                      should_cleanup(exceeded_containers[id], time,
                                     exceeded_duration, max_exceeded_count)}} :
            \E outcome \in {[id \in containers_to_cleanup |->
                               cleanup_outcome(containers, id, stop_ok[id])]} :
               /\ containers' =
                      [id \in DOMAIN containers |->
                          IF id \in containers_to_cleanup /\ outcome[id] = "ok"
                          THEN [containers[id] EXCEPT !.status = "exited"]
                          ELSE containers[id]]
               /\ exceeded_containers' =
                      Restrict(exceeded_containers,
                               {id \in DOMAIN exceeded_containers :
                                   id \in containers_to_cleanup =>
                                       outcome[id] = "error"})
               /\ call' = [op |-> "cleanup_exceeded_containers", action |-> action,
                           exceeded_duration |-> exceeded_duration,
                           max_exceeded_count |-> max_exceeded_count,
                           raised |-> "", attempted |-> containers_to_cleanup,
                           stop_ok |-> stop_ok,
                           ret |-> {id \in containers_to_cleanup :
                                       outcome[id] = "ok"}]
    /\ UNCHANGED <<time, isolation_mode, active_sandboxes, tool_registry, uuid_count,
                   fs_dirs, fs_files, metadata, images, last, returned, cleaned,
                   written, pc>>

\* time.time() moves on between two calls.
sleep ==
    /\ time < MaxTime
    /\ time' = time + 1
    /\ UNCHANGED <<exceeded_containers, call, isolation_mode, active_sandboxes,
                   tool_registry, uuid_count, fs_dirs, fs_files, metadata,
                   containers, images, last, returned, cleaned, written, pc>>

NextResource ==
    \/ \E container_id \in {"c1", "c2"},
          sample \in [error : {FALSE}, cpu_delta : {1, 3}, system_delta : {4},
                      num_cpus : {0, 2}, memory_usage : {1}, memory_limit : {0},
                      pids : {1}]
                     \cup [error : BOOLEAN, cpu_delta : {1}, system_delta : {0},
                           num_cpus : {0}, memory_usage : {3},
                           memory_limit : {2}, pids : {3}],
          limits \in {[cpus |-> 1, memory |-> 2, pids_limit |-> 2],
                      [cpus |-> 2, memory |-> 0, pids_limit |-> 0]},
          a \in {<<"log", TRUE>>, <<"warn", TRUE>>, <<"stop", TRUE>>,
                 <<"stop", FALSE>>, <<"kill", TRUE>>, <<"remove", TRUE>>} :
           enforce_limits(container_id, sample, limits, a[1], a[2])
    \/ \E limits \in {[cpus |-> 1, memory |-> 2, pids_limit |-> 2]} :
           enforce_limits("", [error |-> FALSE, cpu_delta |-> 3, system_delta |-> 4,
                               num_cpus |-> 0, memory_usage |-> 1,
                               memory_limit |-> 0, pids |-> 1], limits, "stop", TRUE)
    \/ \E exceeded_duration \in {1, 300}, max_exceeded_count \in {2, 10},
          action \in {"stop", "kill"}, stop_ok \in [{"c1", "c2"} -> BOOLEAN] :
           cleanup_exceeded_containers(exceeded_duration, max_exceeded_count,
                                       action, stop_ok)
    \/ \E stop_ok \in {[id \in {"c1", "c2"} |-> TRUE]} :
           cleanup_exceeded_containers(1, 2, "remove", stop_ok)
    \/ remove_container_call("c1", TRUE)
    \/ sleep

SpecResource == InitRuntime /\ [][NextResource]_vars

-----------------------------------------------------------------------------
(* SpecRace: one thread inside enforce_limits, statement by statement,     *)
(* while other threads call cleanup_exceeded_containers and reset_tracking *)
(* on the same ResourceManager; nothing in the class serializes them.  pc  *)
(* is the line the first thread is at and last holds its locals; a call    *)
(* of another thread takes effect at the moment it deletes.                *)

\* enforce_limits up to the membership test of its branch: line 301 when
\* the stats exceed the limits, line 349 when they do not.
enforce_limits_check(container_id, sample, limits, action_on_exceed, stop_ok) ==
    /\ pc = "main"
    /\ container_id \in DOMAIN containers
    /\ \E exceeded \in {violations(get_container_stats(sample), limits) # {}},
          tracked \in {container_id \in DOMAIN exceeded_containers} :
          /\ (exceeded /\ tracked) =>
                 exceeded_containers[container_id].exceeded_count < MaxCount
          /\ last' = [op |-> "enforce_limits", container_id |-> container_id,
                      action |-> action_on_exceed, stop_ok |-> stop_ok,
                      exceeded |-> exceeded, raised |-> "", action_taken |-> "none"]
          /\ pc' = IF exceeded THEN IF tracked THEN "line307" ELSE "line302"
                   ELSE IF tracked THEN "line350" ELSE "main"
    /\ UNCHANGED <<exceeded_containers, time, call, isolation_mode, active_sandboxes,
                   tool_registry, uuid_count, fs_dirs, fs_files, metadata,
                   containers, images, returned, cleaned, written>>

\* self._exceeded_containers[container_id] = {first_exceeded, exceeded_count: 0}
enforce_limits_insert ==
    /\ pc = "line302"
    /\ exceeded_containers' =
           SetKey(exceeded_containers, last.container_id,
                  [first_exceeded |-> time, exceeded_count |-> 0])
    /\ pc' = "line307"
    /\ UNCHANGED <<time, call, isolation_mode, active_sandboxes, tool_registry,
                   uuid_count, fs_dirs, fs_files, metadata, containers, images,
                   last, returned, cleaned, written>>

\* self._exceeded_containers[container_id]["exceeded_count"] += 1, a
\* KeyError when the entry is gone, and the action that follows.
enforce_limits_increment ==
    /\ pc = "line307"
    /\ IF last.container_id \notin DOMAIN exceeded_containers
       THEN /\ last' = [last EXCEPT !.raised = "KeyError"]
            /\ UNCHANGED <<exceeded_containers, containers>>
       ELSE \E done \in {enforce_action(containers, last.container_id, last.action,
                                         last.stop_ok)} :
               /\ exceeded_containers' =
                      [exceeded_containers EXCEPT
                          ![last.container_id].exceeded_count = @ + 1]
               /\ containers' = done.conts
               /\ last' = [last EXCEPT !.action_taken = done.action_taken]
    /\ pc' = "main"
    /\ UNCHANGED <<time, call, isolation_mode, active_sandboxes, tool_registry,
                   uuid_count, fs_dirs, fs_files, metadata, images, returned,
                   cleaned, written>>

\* del self._exceeded_containers[container_id] of the within-limits branch,
\* a KeyError when the entry is gone.
enforce_limits_delete ==
    /\ pc = "line350"
    /\ IF last.container_id \notin DOMAIN exceeded_containers
       THEN /\ last' = [last EXCEPT !.raised = "KeyError"]
            /\ UNCHANGED exceeded_containers
       ELSE /\ exceeded_containers' =
                  Restrict(exceeded_containers,
                           DOMAIN exceeded_containers \ {last.container_id})
            /\ UNCHANGED last
    /\ pc' = "main"
    /\ UNCHANGED <<time, call, isolation_mode, active_sandboxes, tool_registry,
                   uuid_count, fs_dirs, fs_files, metadata, containers, images,
                   returned, cleaned, written>>

\* ResourceManager.reset_tracking(container_id); "": None, all tracking.
reset_tracking(container_id) ==
    /\ exceeded_containers' =
           IF container_id = "" THEN <<>>
           ELSE Restrict(exceeded_containers,
                         DOMAIN exceeded_containers \ {container_id})
    /\ call' = [op |-> "reset_tracking", container_id |-> container_id]
    /\ UNCHANGED <<time, isolation_mode, active_sandboxes, tool_registry, uuid_count,
                   fs_dirs, fs_files, metadata, containers, images, last, returned,
                   cleaned, written, pc>>

NextRace ==
    \/ \E container_id \in {"c1", "c2"},
          sample \in [error : {FALSE}, cpu_delta : {1, 3}, system_delta : {4},
                      num_cpus : {0}, memory_usage : {1}, memory_limit : {0},
                      pids : {1}],
          limits \in {[cpus |-> 1, memory |-> 2, pids_limit |-> 2]},
          action_on_exceed \in {"log", "stop"} :
           enforce_limits_check(container_id, sample, limits, action_on_exceed, TRUE)
    \/ enforce_limits_insert
    \/ enforce_limits_increment
    \/ enforce_limits_delete
    \/ \E container_id \in {"", "c1"} : reset_tracking(container_id)
    \/ \E max_exceeded_count \in {1, 2}, stop_ok \in [{"c1", "c2"} -> BOOLEAN] :
           cleanup_exceeded_containers(300, max_exceeded_count, "stop", stop_ok)
    \/ sleep

SpecRace == InitRuntime /\ [][NextRace]_vars

-----------------------------------------------------------------------------
(* SpecCleanup: cleanup_sandbox statement by statement, on two live         *)
(* sandboxes.  The metadata file of the first one is as creation wrote it,  *)
(* unreadable, or missing.  call holds the locals of the running cleanup    *)
(* and the runtime calls it has issued; pc is the statement it is at.       *)

InitCleanup ==
    /\ isolation_mode \in {"directory", "container"}
    /\ \E r \in {TwoSandboxes(isolation_mode)} :
          /\ active_sandboxes = r.reg
          /\ fs_dirs = r.w.dirs
          /\ fs_files = r.w.files
          /\ metadata \in {r.w.meta,
                           [r.w.meta EXCEPT ![uuid4(0)] = CorruptMetadata],
                           [s \in DOMAIN r.w.meta \ {uuid4(0)} |-> r.w.meta[s]]}
          /\ containers = r.w.conts
          /\ images = r.w.imgs
    /\ tool_registry = DefaultTools
    /\ uuid_count = Len(<<uuid4(0), uuid4(1)>>)
    /\ last = Last("create_sandbox", uuid4(1), uuid4(1), "", "", "", EmptyPath,
                   <<>>, {}, {})
    /\ returned = <<uuid4(0), uuid4(1)>>
    /\ cleaned = {}
    /\ written = [s \in CallIds |-> <<>>]
    /\ call = NoCall
    /\ exceeded_containers = <<>>
    /\ time = 0
    /\ pc = "main"

\* cleanup_sandbox up to the pop of the record, and the backend's cleanup up
\* to the load of the metadata.
cleanup_sandbox_pop(sandbox_id, o) ==
    /\ pc = "main"
    /\ IF sandbox_id \notin DOMAIN active_sandboxes
       THEN /\ last' = Last("cleanup_sandbox", sandbox_id, "False", "", "", "",
                            EmptyPath, <<>>, {}, {})
            /\ UNCHANGED <<active_sandboxes, call, pc>>
       ELSE \E sandbox_info \in {active_sandboxes[sandbox_id]} :
            \E container_id \in
                  {IF /\ sandbox_info.isolation_mode = "container"
                      /\ sandbox_id \in DOMAIN metadata
                      /\ metadata[sandbox_id].valid
                   THEN metadata[sandbox_id].container_id ELSE ""} :
               /\ active_sandboxes' = pop(active_sandboxes, sandbox_id)
               /\ call' = [op |-> "cleanup_sandbox", sandbox_id |-> sandbox_id,
                           sandbox_info |-> sandbox_info, o |-> o,
                           container_id |-> container_id, image_tag |-> NoImage,
                           remove_image |-> FALSE, image_ok |-> TRUE,
                           issued |-> {}, cleanup_ret |-> "", raised |-> ""]
               /\ pc' = IF ~Exists(World, SandboxPath(sandbox_id)) THEN "return"
                        ELSE IF container_id # "" THEN "stop" ELSE "rmtree"
               /\ UNCHANGED last
    /\ UNCHANGED <<exceeded_containers, time, isolation_mode, tool_registry,
                   uuid_count, fs_dirs, fs_files, metadata, containers, images,
                   returned, cleaned, written>>

cleanup_stop_aborting ==
    /\ pc = "stop"
    /\ SetWorld(stop_container(World, call.container_id, call.o.stop_ok).w)
    /\ call' = [call EXCEPT !.issued = @ \cup {"stop"}]
    /\ pc' = IF call.o.stop_ok THEN "remove" ELSE "rmtree"
    /\ UNCHANGED <<exceeded_containers, time, isolation_mode, active_sandboxes,
                   tool_registry, uuid_count, last, returned, cleaned, written>>

\* container_manager.stop_container(container_id); a failure is passed over.
cleanup_stop ==
    /\ pc = "stop"
    /\ SetWorld(stop_container(World, call.container_id, call.o.stop_ok).w)
    /\ call' = [call EXCEPT !.issued = @ \cup {"stop"}]
    /\ pc' = "remove"
    /\ UNCHANGED <<exceeded_containers, time, isolation_mode, active_sandboxes,
                   tool_registry, uuid_count, last, returned, cleaned, written>>

\* container_manager.remove_container(container_id, force=True); a failure
\* is logged.
cleanup_remove ==
    /\ pc = "remove"
    /\ SetWorld(remove_container(World, call.container_id, call.o.remove_ok).w)
    /\ call' = [call EXCEPT !.issued = @ \cup {"remove"}]
    /\ pc' = IF call.remove_image /\ call.image_tag # NoImage THEN "image" ELSE "rmtree"
    /\ UNCHANGED <<exceeded_containers, time, isolation_mode, active_sandboxes,
                   tool_registry, uuid_count, last, returned, cleaned, written>>

\* docker_client.images.remove(image_tag, force=True), when remove_image is
\* set and the metadata named an image; a failure is logged.
cleanup_remove_image ==
    /\ pc = "image"
    /\ images' = IF call.image_ok THEN images \ {call.image_tag} ELSE images
    /\ call' = [call EXCEPT !.issued = @ \cup {"remove_image"}]
    /\ pc' = "rmtree"
    /\ UNCHANGED <<exceeded_containers, time, isolation_mode, active_sandboxes,
                   tool_registry, uuid_count, fs_dirs, fs_files, metadata,
                   containers, last, returned, cleaned, written>>

\* shutil.rmtree(sandbox_path): the container backend returns False when it
\* fails, the directory backend raises.
cleanup_rmtree ==
    /\ pc = "rmtree"
    /\ \E w \in {IF call.o.rm_ok THEN Rmtree(World, call.sandbox_id) ELSE World} :
          /\ SetWorld(w)
          /\ written' = WrittenIn(w, written)
    /\ call' = [call EXCEPT
                   !.cleanup_ret = IF call.o.rm_ok THEN "True"
                                   ELSE IF call.sandbox_info.isolation_mode = "container"
                                   THEN "False" ELSE "",
                   !.raised = IF call.o.rm_ok
                                 \/ call.sandbox_info.isolation_mode = "container"
                              THEN "" ELSE "RuntimeError"]
    /\ pc' = IF call.op = "cleanup_sandbox" THEN "return" ELSE "main"
    /\ UNCHANGED <<exceeded_containers, time, isolation_mode, active_sandboxes,
                   tool_registry, uuid_count, last, returned, cleaned>>

\* The end of cleanup_sandbox: return True, or the except branch that puts
\* the record back and raises.
cleanup_sandbox_return ==
    /\ pc = "return"
    /\ IF call.raised = ""
       THEN /\ last' = Last("cleanup_sandbox", call.sandbox_id, "True", "", "", "",
                            EmptyPath, <<>>, {}, {})
            /\ cleaned' = cleaned \cup {call.sandbox_id}
            /\ UNCHANGED active_sandboxes
       ELSE /\ active_sandboxes' =
                  IF call.sandbox_id \notin DOMAIN active_sandboxes
                  THEN SetKey(active_sandboxes, call.sandbox_id, call.sandbox_info)
                  ELSE active_sandboxes
            /\ last' = Last("cleanup_sandbox", call.sandbox_id, "", "RuntimeError",
                            "", "", EmptyPath, <<>>, {}, {})
            /\ UNCHANGED cleaned
    /\ pc' = "main"
    /\ UNCHANGED <<exceeded_containers, time, call, isolation_mode, tool_registry,
                   uuid_count, fs_dirs, fs_files, metadata, containers, images,
                   returned, written>>

NextCleanup ==
    \/ \E sandbox_id \in CallIds, o \in CleanupOutcomes :
           cleanup_sandbox_pop(sandbox_id, o)
    \/ cleanup_stop
    \/ cleanup_remove
    \/ cleanup_rmtree
    \/ cleanup_sandbox_return

SpecCleanup == InitCleanup /\ [][NextCleanup]_vars

\* ContainerEnvironmentBuilder.cleanup(sandbox_id, remove_image) called on a
\* builder that holds nothing in memory, up to the load of the metadata.
builder_cleanup(sandbox_id, remove_image, o, image_ok) ==
    /\ pc = "main"
    /\ \E readable \in {/\ sandbox_id \in DOMAIN metadata
                        /\ metadata[sandbox_id].valid} :
       \E container_id \in {IF readable THEN metadata[sandbox_id].container_id ELSE ""},
          image_tag \in {IF readable THEN metadata[sandbox_id].image_tag ELSE NoImage},
          found \in {sandbox_id # "" /\ Exists(World, SandboxPath(sandbox_id))} :
          /\ call' = [op |-> "cleanup", sandbox_id |-> sandbox_id,
                      sandbox_info |-> [isolation_mode |-> "container"], o |-> o,
                      container_id |-> container_id, image_tag |-> image_tag,
                      remove_image |-> remove_image, image_ok |-> image_ok,
                      issued |-> {}, cleanup_ret |-> IF found THEN "" ELSE "False",
                      raised |-> ""]
          /\ pc' = IF ~found THEN "main"
                   ELSE IF container_id # "" THEN "stop"
                   ELSE IF remove_image /\ image_tag # NoImage THEN "image"
                   ELSE "rmtree"
    /\ UNCHANGED <<exceeded_containers, time, isolation_mode, active_sandboxes,
                   tool_registry, uuid_count, fs_dirs, fs_files, metadata,
                   containers, images, last, returned, cleaned, written>>

NextBuilderCleanup ==
    \/ \E sandbox_id \in BuilderIds, remove_image \in BOOLEAN, o \in CleanupOutcomes :
          \E image_ok \in IF remove_image THEN BOOLEAN ELSE {TRUE} :
              builder_cleanup(sandbox_id, remove_image, o, image_ok)
    \/ cleanup_stop
    \/ cleanup_remove
    \/ cleanup_remove_image
    \/ cleanup_rmtree

\* The builder of the container backend, on container sandboxes.
InitBuilderCleanup == InitCleanup /\ isolation_mode = "container"

SpecBuilderCleanup == InitBuilderCleanup /\ [][NextBuilderCleanup]_vars

-----------------------------------------------------------------------------
(* SpecBackends: one tool call given to both backends on the same          *)
(* workspace, that of the first of two live sandboxes: the in-process tool  *)
(* bound to the workspace directory, and the generated script run where     *)
(* /workspace is the bind mount of that directory.                          *)

\* The argument sets tried: file_path / directory_path of at most two
\* components or one of MainPaths, or absent; content present or absent.
BackendArgs ==
    {ToolArgs(TRUE, p, has_content, IF has_content THEN "C" ELSE "") :
         p \in MainPaths \cup ({PathArg(abs, parts) :
                                   abs \in BOOLEAN,
                                   parts \in SeqsUpTo(PathComponents, 2)}
                               \ {PathArg(TRUE, <<>>)}),
         has_content \in BOOLEAN}
    \cup {ToolArgs(FALSE, EmptyPath, has_content, IF has_content THEN "C" ELSE "") :
              has_content \in BOOLEAN}

\* tool.execute(**kwargs) and the script for the same kwargs, each on the
\* workspace as it is.
run_both(tool_name, args) ==
    /\ pc = "call"
    /\ \E directory \in {Tool_execute(World, tool_name,
                                      active_sandboxes[uuid4(0)].workspace_path, args)},
          container \in {create_tool_script(World, tool_name,
                                            containers[ContainerId(uuid4(0))].bind,
                                            args)} :
          call' = [op |-> "both", tool |-> tool_name, args |-> args,
                   directory |-> directory, container |-> container]
    /\ pc' = "done"
    /\ UNCHANGED <<exceeded_containers, time, isolation_mode, active_sandboxes,
                   tool_registry, uuid_count, fs_dirs, fs_files, metadata,
                   containers, images, last, returned, cleaned, written>>

NextBackends ==
    \E tool_name \in SUPPORTED_TOOLS : \E args \in BackendArgs : run_both(tool_name, args)

SpecBackends == InitScript /\ [][NextBackends]_vars

-----------------------------------------------------------------------------
(* SpecIsolation: tool calls and cleanups on two live sandboxes.            *)

NextIsolation ==
    \/ \E sandbox_id \in UuidIds, tool_name \in ToolNames :
          \E args \in ExecArgs(tool_name), exec_ok \in ExecInputs(sandbox_id, tool_name) :
              execute_tool(sandbox_id, tool_name, args, exec_ok)
    \/ \E sandbox_id \in CallIds :
          \E o \in CleanupInputs(sandbox_id) : cleanup_sandbox(sandbox_id, o)

SpecIsolation == InitExec /\ [][NextIsolation]_vars

-----------------------------------------------------------------------------
(* SpecManaged: a SandboxManager with two live container sandboxes and a   *)
(* ResourceManager acting on the same runtime; the two share container     *)
(* ids only.                                                               *)

InitManaged == InitExec /\ isolation_mode = "container"

NextManaged ==
    \/ \E sandbox_id \in UuidIds, tool_name \in SUPPORTED_TOOLS :
          \E args \in LifecycleArgs(tool_name) :
              execute_tool(sandbox_id, tool_name, args, TRUE)
    \/ \E sandbox_id \in UuidIds : cleanup_sandbox(sandbox_id, AllOk)
    \/ \E sandbox_id \in UuidIds,
          sample \in [error : {FALSE}, cpu_delta : {1, 3}, system_delta : {4},
                      num_cpus : {0}, memory_usage : {1}, memory_limit : {0},
                      pids : {1}],
          limits \in {[cpus |-> 1, memory |-> 2, pids_limit |-> 2]},
          action_on_exceed \in {"log", "stop", "kill"} :
           enforce_limits(ContainerId(sandbox_id), sample, limits, action_on_exceed,
                          TRUE)
    \/ \E stop_ok \in [{ContainerId(sandbox_id) : sandbox_id \in UuidIds} -> {TRUE}] :
           cleanup_exceeded_containers(300, 2, "stop", stop_ok)

SpecManaged == InitManaged /\ [][NextManaged]_vars

-----------------------------------------------------------------------------
(* Properties.                                                             *)

Range(seq) == {seq[i] : i \in DOMAIN seq}

\* C1: in either isolation mode, when the backend's cleanup of a registered
\* sandbox fails (the directory or the container is still there afterwards),
\* the sandbox's record is in the registry after cleanup_sandbox(id).
C1_RecordRestoredOnFailure ==
    (last.op = "cleanup_sandbox" /\ last.id \in last.failed)
        => last.id \in DOMAIN active_sandboxes

\* C2: whenever cleanup_sandbox(id) returns True, the sandbox's workspace
\* directory no longer exists and its container no longer exists in the
\* container runtime.
C2_TrueMeansRemoved ==
    (last.op = "cleanup_sandbox" /\ last.ret = "True")
        => /\ ~Exists(World, WorkspacePath(last.id))
           /\ ContainerId(last.id) \notin DOMAIN containers

\* C3: once cleanup_sandbox(id) has returned True, every later
\* cleanup_sandbox(id) returns False without raising and every later
\* get_sandbox(id) returns None, whatever ran in between.
C3_CleanedStaysGone ==
    [][\A s \in cleaned :
          /\ (last'.op = "cleanup_sandbox" /\ last'.id = s)
                 => (last'.ret = "False" /\ last'.raised = "")
          /\ (last'.op = "get_sandbox" /\ last'.id = s) => last'.ret = "None"]_vars

\* A second cleanup of a cleaned-up id has just returned False while
\* another sandbox is live.
C3_SecondCleanupReturnedFalse ==
    /\ last.op = "cleanup_sandbox"
    /\ last.id \in cleaned
    /\ last.ret = "False"
    /\ DOMAIN active_sandboxes # {}

\* C4: when create_sandbox raises, at whatever step, the registry after the
\* call equals the registry before it.
C4_FailedCreateKeepsRegistry ==
    [][(last'.op = "create_sandbox" /\ last'.raised # "")
          => active_sandboxes' = active_sandboxes]_vars

\* create_sandbox has just raised in a manager that holds a sandbox.
C4_CreateRaisedWithLiveSandbox ==
    /\ last.op = "create_sandbox"
    /\ last.raised # ""
    /\ DOMAIN active_sandboxes # {}

\* C5: when ContainerEnvironmentBuilder.create_environment fails at any
\* step, neither a container created for the sandbox id nor the sandbox's
\* directory exists once the error is raised.
C5_FailedBuildLeavesNothing ==
    (isolation_mode = "container" /\ last.op = "create_sandbox" /\ last.raised # "")
        => /\ ~Exists(World, SandboxPath(last.id))
           /\ ContainerId(last.id) \notin DOMAIN containers

\* C6: when create_sandbox fails after the backend built the environment
\* (a tool instance cannot be constructed), the workspace directory and any
\* container of that sandbox are gone when the error reaches the caller.
C6_RolledBackAfterBuild ==
    (last.op = "create_sandbox" /\ last.stage = "tools")
        => /\ ~Exists(World, WorkspacePath(last.id))
           /\ ContainerId(last.id) \notin DOMAIN containers

C8_LeavesOnlyByCleanup ==
    [][\A s \in DOMAIN active_sandboxes :
          IF s \in DOMAIN active_sandboxes'
          THEN active_sandboxes'[s].status = active_sandboxes[s].status
          ELSE /\ \/ last'.op = "cleanup_sandbox" /\ last'.id = s
                  \/ last'.op = "cleanup_all"
               /\ s \notin last'.failed]_vars

\* C9: with two live sandboxes and any interleaving of write_file and
\* read_file calls, reading a file in a sandbox returns what that sandbox
\* wrote to it last, whatever the other sandbox wrote to the same path.
C9_ReadReturnsOwnWrite ==
    /\ \A s \in DOMAIN active_sandboxes :
          \A rel \in DOMAIN written[s] :
              \A r \in {execute_tool_result(active_sandboxes, World, s, "read_file",
                                             ToolArgs(TRUE, PathArg(FALSE, rel), FALSE, ""),
                                             TRUE)} :
                  r.raised = "" /\ r.ret = written[s][rel]
    /\ (last.op = "execute_tool" /\ last.tool = "read_file" /\ last.raised = "")
          => /\ last.rel \in DOMAIN written[last.id]
             /\ last.ret = written[last.id][last.rel]

\* A read of f in one sandbox has just returned that sandbox's content
\* while the other sandbox holds different content at f.
C9_ReadAfterBothWrote ==
    \E x \in DOMAIN active_sandboxes, y \in DOMAIN active_sandboxes :
        /\ x # y
        /\ File \in DOMAIN written[x]
        /\ File \in DOMAIN written[y]
        /\ written[x][File] # written[y][File]
        /\ last.op = "execute_tool" /\ last.tool = "read_file" /\ last.id = x
        /\ last.rel = File
        /\ last.ret = written[x][File]

\* The first n components of a path, "." dropped and ".." taking back the
\* component before it.
RECURSIVE NormalPrefix(_, _)
NormalPrefix(parts, n) ==
    IF n = 0 THEN <<>>
    ELSE CHOOSE q \in {CASE parts[n] = "." -> before
                         [] parts[n] = ".." /\ before = <<>> -> before
                         [] parts[n] = ".." /\ before # <<>> -> Parent(before)
                         [] OTHER -> Append(before, parts[n]) :
                           before \in {NormalPrefix(parts, n - 1)}} : TRUE

\* The workspace root a tool call of the sandbox is confined to.
WorkspaceRoot(sandbox_id) ==
    IF isolation_mode = "container" THEN ScriptBase ELSE WorkspacePath(sandbox_id)

\* The path argument names a location outside the root.
NormalizesOutside(root, arg) ==
    \E full \in {IF arg.abs THEN arg.parts ELSE root \o arg.parts} :
        ~IsPrefix(root, NormalPrefix(full, Len(full)))

ContainmentErrors ==
    {"ValueError:outside sandbox", "RuntimeError:ValueError:outside sandbox"}

\* C10: a read_file, write_file or list_files call, in either backend, whose
\* path argument normalizes to a location outside the workspace root fails
\* with the containment error, returns nothing, and leaves every file and
\* directory as it was.
C10_OutsidePathRefused ==
    (pc = "done" /\ NormalizesOutside(WorkspaceRoot(last.id), last.arg))
        => /\ last.raised # ""
           /\ last.stage \in ContainmentErrors
           /\ last.ret = "" /\ last.listing = {}
           /\ World = PathWorld(TwoSandboxes(isolation_mode).w)

\* A write through ".." to a place outside the root has just been refused.
C10_TraversalWriteRefused ==
    /\ pc = "done"
    /\ last.tool = "write_file"
    /\ ~last.arg.abs
    /\ ".." \in Range(last.arg.parts)
    /\ NormalizesOutside(WorkspaceRoot(last.id), last.arg)
    /\ last.stage \in ContainmentErrors

\* C11: execute_tool with a sandbox id that is not in the registry, or with
\* a tool name that is unknown (neither registered nor supported in
\* containers) or not in the sandbox's tool set, raises ValueError, runs no
\* tool code and no container exec (files, directories and containers are
\* as before), and leaves the registry unchanged, in both isolation modes.
C11_UnknownRejectedAsValueError ==
    [][(/\ last'.op = "execute_tool"
        /\ \/ last'.id \notin DOMAIN active_sandboxes
           \/ last'.tool \notin active_sandboxes[last'.id].tools
           \/ last'.tool \notin DOMAIN tool_registry \cup SUPPORTED_TOOLS)
          => /\ last'.raised = "ValueError"
             /\ active_sandboxes' = active_sandboxes
             /\ <<fs_dirs', fs_files', metadata', containers', images'>>
                    = <<fs_dirs, fs_files, metadata, containers, images>>]_vars

\* C12 (as stated): in both isolation modes the tool set recorded for a
\* created sandbox is the union of the names the skill declares and the
\* names in the tool registry.
C12_ToolSetIsUnion ==
    [][(last'.op = "create_sandbox" /\ last'.raised = "")
          => active_sandboxes'[last'.ret].tools
                 = active_sandboxes'[last'.ret].skill.tools \cup DOMAIN tool_registry]_vars

\* C12 (amended): the tool set recorded for a created sandbox, which is what
\* list_tools returns, is in container mode the union of the names the skill
\* declares and the names in the tool registry, and in directory mode the
\* names in the tool registry: a declared name that is not registered is
\* left out.
C12_ToolSetByMode ==
    [][/\ (last'.op = "create_sandbox" /\ last'.raised = "")
            => active_sandboxes'[last'.ret].tools
                   = IF isolation_mode = "container"
                     THEN active_sandboxes'[last'.ret].skill.tools \cup DOMAIN tool_registry
                     ELSE DOMAIN tool_registry
       /\ (last'.op = "list_tools" /\ last'.raised = "")
            => last'.listing = active_sandboxes[last'.id].tools]_vars

\* list_tools has just returned the tool set of a directory sandbox whose
\* skill declares a name that is not registered.
C12_ListedWithoutUnregistered ==
    /\ last.op = "list_tools" /\ last.raised = ""
    /\ isolation_mode = "directory"
    /\ active_sandboxes[last.id].skill.tools \ DOMAIN tool_registry # {}
    /\ last.listing = DOMAIN tool_registry

\* How often x occurs in a list.
Count(seq, x) == Cardinality({i \in DOMAIN seq : seq[i] = x})

\* The two lists hold the same items the same number of times.
SameItems(p, q) == \A x \in Range(p) \cup Range(q) : Count(p, x) = Count(q, x)

\* The names a list of package positions declares.
PackageSet(packages) == {PackageNames[i] : i \in Range(packages)}

C14_DifferentPackagesDifferentIdentity ==
    call.op = "_generate_image_tag"
        => \A S2 \in ImageSkills :
               (/\ S2.name = call.skill.name
                /\ S2.python_version = call.skill.python_version
                /\ \/ PackageSet(S2.packages) # PackageSet(call.skill.packages)
                   \/ PackageSet(S2.system_packages) # PackageSet(call.skill.system_packages))
                   => /\ requirements_to_string(S2, call.base_image) # call.requirements
                      /\ generate_image_tag(S2, call.base_image) # call.tag

NothingOnDisk(w, sandbox_id) ==
    /\ \A p \in w.dirs \cup DOMAIN w.files : ~IsPrefix(SandboxPath(sandbox_id), p)
    /\ sandbox_id \notin DOMAIN w.meta

C17_BadIdRefusedUntouched ==
    [][(/\ call'.op = "create_environment"
        /\ \/ call'.sandbox_id = ""
           \/ BasePath \o <<call'.sandbox_id>> \in fs_dirs \cup DOMAIN fs_files)
          => /\ call'.err = "ValueError"
             /\ <<fs_dirs', fs_files', metadata', containers', images'>>
                    = <<fs_dirs, fs_files, metadata, containers, images>>]_vars

\* create_environment has just refused the id of a live sandbox, whose file
\* f still holds what the sandbox wrote.
C17_DuplicateIdRefused ==
    /\ call.op = "create_environment"
    /\ call.sandbox_id \in DOMAIN active_sandboxes
    /\ call.err = "ValueError" /\ call.stage = "exists"
    /\ fs_files[WorkspacePath(call.sandbox_id) \o File]
           = written[call.sandbox_id][File]

\* The command exited with code 0, the runtime reported no error and
\* standard output is an envelope with success = true.
SuccessEnvelope(result) ==
    /\ result.exit_code = 0
    /\ result.error = ""
    /\ result.stdout.kind = "json"
    /\ result.stdout.doc.type = "object"
    /\ result.stdout.doc.success = "true"

\* C18: ContainerToolExecutor.execute_tool returns a value only when the
\* command exited with code 0, the runtime reported no error and standard
\* output is an envelope with success = true; for every other execution
\* result it raises RuntimeError and returns nothing.
C18_OnlySuccessEnvelopeReturns ==
    call.op = "executor.execute_tool"
        => IF SuccessEnvelope(call.result)
           THEN call.raised = ""
           ELSE call.raised = "RuntimeError" /\ call.ret = ""

\* C19: ContainerToolExecutor.execute_tool with a tool name outside
\* {read_file, write_file, list_files} raises ValueError and issues no exec:
\* the outcome is the same whether or not the container exists or runs and
\* whatever the runtime would answer, and nothing changes on disk or in the
\* runtime.
C19_UnsupportedToolNoExec ==
    [][(/\ last'.op = "execute_tool" /\ isolation_mode = "container"
        /\ last'.id \in DOMAIN active_sandboxes
        /\ last'.tool \in active_sandboxes[last'.id].tools
        /\ last'.tool \notin {"read_file", "write_file", "list_files"})
          => /\ last'.stage = "ValueError:unknown tool"
             /\ <<fs_dirs', fs_files', metadata', containers', images'>>
                    = <<fs_dirs, fs_files, metadata, containers, images>>
             /\ \A container_id \in DOMAIN containers \cup {"gone"}, exec_ok \in BOOLEAN :
                   ContainerToolExecutor_execute_tool(
                       World, container_id, last'.tool, NoArgs, exec_ok)
                       = Fail("ValueError:unknown tool", World)]_vars

\* The executor has just refused web_search, a tool the skill of a live
\* container sandbox declares, while another container is left over from a
\* cleaned-up sandbox.
C19_RefusedBeforeExec ==
    /\ last.op = "execute_tool" /\ isolation_mode = "container"
    /\ last.tool = "web_search"
    /\ last.stage = "ValueError:unknown tool"
    /\ last.id \in DOMAIN active_sandboxes
    /\ DOMAIN containers # {ContainerId(last.id)}

\* C20: for each supported tool and every argument set, the run of the
\* generated script prints exactly one envelope and exits with code 0,
\* whether the operation succeeds or fails (invalid arguments, containment
\* rejection, I/O error); the envelope reports success exactly when the
\* operation was carried out, and the files are as the operation leaves them.
C20_OneEnvelopeExitZero ==
    [][call'.op = "script"
          => /\ Len(call'.out) = 1
             /\ call'.exit_code = 0
             /\ \A r \in {create_tool_script(World, call'.tool,
                                             containers[ContainerId(uuid4(0))].bind,
                                             call'.args)} :
                   /\ call'.out[1].success = (r.err = "")
                   /\ ~call'.out[1].success => call'.out[1].value = r.err
                   /\ <<fs_dirs', fs_files'>> = <<r.w.dirs, r.w.files>>]_vars

\* A write_file script has just refused a path outside /workspace with one
\* failure envelope and exit code 0.
C20_RejectionPrintedOnce ==
    /\ call.op = "script" /\ call.tool = "write_file"
    /\ call.out = <<Envelope(FALSE, "ValueError:outside sandbox")>>
    /\ call.exit_code = 0

\* C21: execute_in_container runs the command (reaches exec_run) only in a
\* container that exists and is running when the call looks at it; on a
\* container in any other state the call raises and exec_run is not reached.
C21_ExecOnlyInRunningContainer ==
    [][call'.op = "execute_in_container" =>
          LET id == call'.container_id
              running == id \in DOMAIN containers /\ containers[id].status = "running"
          IN /\ call'.exec_run => running
             /\ ~running => call'.raised # ""]_vars

\* C21 witness: the call named a container that exists but has exited; it
\* raised APIError and did not reach exec_run.
C21_ExitedContainerRefused ==
    /\ call.op = "execute_in_container"
    /\ call.container_id \in DOMAIN containers
    /\ containers[call.container_id].status = "exited"
    /\ call.raised = "APIError"
    /\ ~call.exec_run

C23_OnlyOwnContainersCleaned ==
    [][call'.op = "cleanup_containers" /\ call'.sandbox_id # <<>> =>
          \A id \in DOMAIN containers :
              containers[id].name # ContainerName(call'.sandbox_id) =>
                  id \in DOMAIN containers' /\ containers'[id] = containers[id]]_vars

\* C24: whenever the CPU usage of the sample, (cpu_delta / system_delta) x
\* core count x 100, is greater than the configured limit c x 100 (c =
\* cpus / 2 cores), enforce_limits reports exceeded with a CPU violation.
C24_CpuOverLimitReported ==
    /\ call.op = "enforce_limits"
    /\ call.raised = ""
    /\ call.cpus # 0
    /\ call.system_delta > 0
    /\ 2 * call.cpu_delta * call.num_cpus > call.cpus * call.system_delta
    => call.exceeded /\ "cpu" \in call.violations

\* An enforce_limits call that got as far as the limit checks.
EnforceStep == call'.op = "enforce_limits" /\ time' = time /\ call'.raised = ""

C27_StopsOnlyOnRequest ==
    [][EnforceStep =>
          /\ call'.action \notin {"stop", "kill"} => containers' = containers
          /\ call'.exceeded /\ call'.action = "log" => call'.action_taken = "logged"
          /\ call'.exceeded /\ call'.action = "warn" => call'.action_taken = "warned"
          /\ ~call'.exceeded =>
                 call'.action_taken = "none" /\ containers' = containers]_vars

\* C27 witness: c1 has reached MaxCount violations, the latest enforced with
\* warn, and is still running.
C27_WarnedAtMaxCountStillRunning ==
    /\ call.op = "enforce_limits"
    /\ call.action = "warn"
    /\ call.container_id = "c1"
    /\ call.action_taken = "warned"
    /\ "c1" \in DOMAIN exceeded_containers
    /\ exceeded_containers["c1"].exceeded_count = MaxCount
    /\ "c1" \in DOMAIN containers
    /\ containers["c1"].status = "running"

\* A cleanup_exceeded_containers call with a valid action.
SweepStep ==
    call'.op = "cleanup_exceeded_containers" /\ time' = time /\ call'.raised = ""

\* C28: the sweep attempts its action on exactly the tracked containers
\* whose over-limit duration has reached exceeded_duration or whose count
\* has reached max_exceeded_count; every other container keeps its run state
\* and its tracking entry.
C28_SweepSelectsByThresholds ==
    [][SweepStep =>
          /\ call'.attempted =
                 {id \in DOMAIN exceeded_containers :
                     \/ time - exceeded_containers[id].first_exceeded
                            >= call'.exceeded_duration
                     \/ exceeded_containers[id].exceeded_count
                            >= call'.max_exceeded_count}
          /\ \A id \in DOMAIN containers \ call'.attempted :
                 id \in DOMAIN containers' /\ containers'[id] = containers[id]
          /\ \A id \in DOMAIN exceeded_containers \ call'.attempted :
                 /\ id \in DOMAIN exceeded_containers'
                 /\ exceeded_containers'[id] = exceeded_containers[id]]_vars

\* C28 witness: a sweep selected c1 and stopped it while c2, tracked below
\* both thresholds, stays tracked and running.
C28_SweptOneOfTwoTracked ==
    /\ call.op = "cleanup_exceeded_containers"
    /\ call.attempted = {"c1"}
    /\ call.ret = {"c1"}
    /\ "c2" \in DOMAIN exceeded_containers
    /\ containers["c2"].status = "running"

\* C29: the sweep returns exactly the selected containers the runtime
\* stopped or killed and drops them from tracking; a selected container that
\* no longer exists is dropped from tracking and not returned; a selected
\* container whose stop or kill the runtime refuses stays tracked and as it
\* was, and is not returned.
C29_SweepReturnsOnlyStopped ==
    [][SweepStep =>
          /\ call'.ret \subseteq call'.attempted
          /\ \A id \in call'.attempted :
                 IF id \notin DOMAIN containers
                 THEN id \notin call'.ret /\ id \notin DOMAIN exceeded_containers'
                 ELSE IF call'.stop_ok[id]
                 THEN /\ id \in call'.ret
                      /\ id \notin DOMAIN exceeded_containers'
                      /\ containers'[id].status = "exited"
                 ELSE /\ id \notin call'.ret
                      /\ id \in DOMAIN exceeded_containers'
                      /\ exceeded_containers'[id] = exceeded_containers[id]
                      /\ containers'[id] = containers[id]]_vars

\* C29 witness: a sweep selected c1 and c2; the runtime refused to stop c1,
\* which stays tracked, and c2 was stopped and returned.
C29_FailureDidNotStopSweep ==
    /\ call.op = "cleanup_exceeded_containers"
    /\ call.attempted = {"c1", "c2"}
    /\ call.ret = {"c2"}
    /\ "c1" \in DOMAIN containers
    /\ "c1" \in DOMAIN exceeded_containers
    /\ "c2" \notin DOMAIN exceeded_containers

\* C30: every image the sweep removes has a creation time that is not after
\* the cutoff (today - older_than_days) and carries no keep-list tag.
C30_RemovesOnlyOldUnkept ==
    [][call'.op = "cleanup_unused_images" =>
          \A image \in images \ images' :
              /\ image.tags \cap call'.keep_tags = {}
              /\ image.Created.kind = "date"
              /\ image.Created.day <= call'.today - call'.older_than_days]_vars

\* DockerImageBuilder.list_images(): the tags in the runtime that start with
\* the builder's prefix "skill-".
list_images(imgs) ==
    UNION {image.tags : image \in imgs} \cap
        {"skill-old", "skill-new", "skill-two", "skill-undated", "skill-garbled"}

\* C31: every image the sweep removes is an image the builder built for a
\* skill (it carries a skill- tag); any other image of the runtime stays.
C31_RemovesOnlyBuiltImages ==
    [][call'.op = "cleanup_unused_images" =>
          \A image \in images \ images' : list_images({image}) # {}]_vars

\* C32: cleanup_all returns the number of sandboxes whose backend cleanup
\* left nothing behind, and afterwards the registry holds exactly the
\* sandboxes whose cleanup failed.
C32_CleanupAllKeepsExactlyFailed ==
    [][last'.op = "cleanup_all" =>
          /\ DOMAIN active_sandboxes' = last'.failed
          /\ last'.ret =
                 ToString(Cardinality(DOMAIN active_sandboxes \ last'.failed))]_vars

\* The backend handle of a registered sandbox is released: its directory is
\* gone, or its container is gone or no longer running.
HandleReleased(sandbox_id) ==
    \/ ~Exists(World, SandboxPath(sandbox_id))
    \/ /\ active_sandboxes[sandbox_id].isolation_mode = "container"
       /\ \/ active_sandboxes[sandbox_id].container_id \notin DOMAIN containers
          \/ containers[active_sandboxes[sandbox_id].container_id].status # "running"

\* C33: at no point of a cleanup is a sandbox registered with status active
\* while its directory or container has already been released.
C33_NotActiveWhenReleased ==
    \A sandbox_id \in DOMAIN active_sandboxes :
        active_sandboxes[sandbox_id].status = "active" => ~HandleReleased(sandbox_id)

\* C33 witness: a cleanup has stopped the container of a sandbox and is
\* about to remove it; the record has left the registry.
C33_ReleasingAfterPop ==
    /\ pc = "remove"
    /\ call.container_id \in DOMAIN containers
    /\ containers[call.container_id].status = "exited"
    /\ call.sandbox_id \notin DOMAIN active_sandboxes

\* The metadata file of the sandbox is missing or cannot be read.
Unreadable(sandbox_id) ==
    sandbox_id \notin DOMAIN metadata \/ ~metadata[sandbox_id].valid

\* C34: when the builder's cleanup reaches the removal of the directory, it
\* has issued no runtime call if the metadata is missing or unreadable, it
\* has issued the forced removal if the stop failed, and a successful
\* rmtree removes the directory tree and makes it return True.
C34_CleanupToleratesMissingMetadata ==
    [][(pc = "rmtree" /\ call.op = "cleanup") =>
          /\ Unreadable(call.sandbox_id) =>
                 /\ call'.issued = {}
                 /\ containers' = containers
                 /\ images' = images
          /\ ("stop" \in call.issued /\ ~call.o.stop_ok) =>
                 /\ "remove" \in call'.issued
                 /\ call.o.remove_ok => call.container_id \notin DOMAIN containers'
          /\ call.o.rm_ok =>
                 /\ ~Exists(World, SandboxPath(call.sandbox_id))'
                 /\ call'.cleanup_ret = "True"]_vars

\* C34 witness: the cleanup of the first sandbox, whose metadata could not
\* be read, returned True with the directory gone and the container of the
\* sandbox untouched.
C34_CleanedWithoutMetadata ==
    /\ pc = "main"
    /\ call.op = "cleanup"
    /\ call.sandbox_id = uuid4(0)
    /\ call.container_id = ""
    /\ call.issued = {}
    /\ call.cleanup_ret = "True"
    /\ ~Exists(World, SandboxPath(uuid4(0)))
    /\ ContainerId(uuid4(0)) \in DOMAIN containers
    /\ containers[ContainerId(uuid4(0))].status = "running"

\* C34 witness: the stop was refused, the container was removed all the
\* same and the directory with it.
C34_RemovedAfterFailedStop ==
    /\ pc = "main"
    /\ call.op = "cleanup"
    /\ ~call.o.stop_ok
    /\ call.issued = {"stop", "remove"}
    /\ call.container_id \notin DOMAIN containers
    /\ call.cleanup_ret = "True"

\* C35: for every registered container sandbox the metadata file is readable
\* and names the container id the manager recorded and the image identity of
\* the skill; that container exists, was created for this sandbox from that
\* image, and a cleanup that knows nothing but the files changes no other
\* container and, the runtime permitting, removes this one.
C35_MetadataNamesRecordedContainer ==
    \A sandbox_id \in DOMAIN active_sandboxes :
        active_sandboxes[sandbox_id].isolation_mode = "container" =>
            /\ ~Unreadable(sandbox_id)
            /\ \E container_id \in {metadata[sandbox_id].container_id} :
                  /\ container_id = active_sandboxes[sandbox_id].container_id
                  /\ container_id \in DOMAIN containers
                  /\ containers[container_id].name = sandbox_id
                  /\ containers[container_id].image = metadata[sandbox_id].image_tag
                  /\ metadata[sandbox_id].image_tag =
                         generate_image_tag(active_sandboxes[sandbox_id].skill,
                                            DefaultBaseImage)
                  /\ \A o \in CleanupOutcomes :
                     \E c \in {ContainerEnvironmentBuilder_cleanup(World, sandbox_id, o)} :
                        /\ \A other \in DOMAIN containers \ {container_id} :
                               /\ other \in DOMAIN c.w.conts
                               /\ c.w.conts[other] = containers[other]
                        /\ o.remove_ok => container_id \notin DOMAIN c.w.conts

\* C35 witness: two container sandboxes are registered, each with its own
\* container named in its own metadata file.
C35_TwoSandboxesTwoContainers ==
    /\ isolation_mode = "container"
    /\ DOMAIN active_sandboxes = {uuid4(0), uuid4(1)}
    /\ metadata[uuid4(0)].container_id # metadata[uuid4(1)].container_id
    /\ {metadata[uuid4(0)].container_id, metadata[uuid4(1)].container_id}
           = DOMAIN containers

\* C36: given the same tool, the same arguments and the same workspace, the
\* in-process tool and the generated script both fail, or both succeed and
\* leave the same files and directories.
C36_BackendsAgree ==
    call.op = "both" =>
        \/ call.directory.err # "" /\ call.container.err # ""
        \/ /\ call.directory.err = ""
           /\ call.container.err = ""
           /\ call.directory.w = call.container.w

\* What the world holds of one sandbox: its directories and files, its
\* metadata file and the container the registry names for it.
SandboxState(w, reg, sandbox_id) ==
    [dirs |-> {d \in w.dirs : IsPrefix(SandboxPath(sandbox_id), d)},
     files |-> [p \in {q \in DOMAIN w.files : IsPrefix(SandboxPath(sandbox_id), q)}
                   |-> w.files[p]],
     meta |-> IF sandbox_id \in DOMAIN w.meta THEN {w.meta[sandbox_id]} ELSE {},
     container |-> IF reg[sandbox_id].container_id \in DOMAIN w.conts
                   THEN {w.conts[reg[sandbox_id].container_id]} ELSE {}]

\* C37: a cleanup_sandbox or execute_tool call on one sandbox, whatever its
\* outcome, leaves the record, the directories and files and the container
\* of every other registered sandbox as they were.
C37_OtherSandboxesUntouched ==
    [][last'.op \in {"cleanup_sandbox", "execute_tool"} =>
          \A other \in DOMAIN active_sandboxes \ {last'.id} :
              /\ other \in DOMAIN active_sandboxes'
              /\ active_sandboxes'[other] = active_sandboxes[other]
              /\ SandboxState(World, active_sandboxes, other)' =
                     SandboxState(World, active_sandboxes, other)]_vars

\* C37 witness: the first sandbox has been cleaned up while the second one,
\* which had written f, is registered with f in place.
C37_SiblingSurvivedCleanup ==
    /\ last.op = "cleanup_sandbox"
    /\ last.id = uuid4(0)
    /\ last.ret = "True"
    /\ ~Exists(World, SandboxPath(uuid4(0)))
    /\ uuid4(1) \in DOMAIN active_sandboxes
    /\ WorkspacePath(uuid4(1)) \o File \in DOMAIN fs_files

\* C38: whatever the other threads do to the tracking map, enforce_limits
\* never fails on an entry that disappeared after its membership test, and
\* once it has returned every tracked container has a count of at least 1.
C38_EnforceSurvivesConcurrentRemoval ==
    /\ last.op = "enforce_limits" => last.raised # "KeyError"
    /\ pc = "main" =>
           \A container_id \in DOMAIN exceeded_containers :
               exceeded_containers[container_id].exceeded_count >= 1

\* C39: every container-mode sandbox registered as active has a running
\* container, and no execute_tool call on a registered sandbox is refused
\* because its container is not running.
C39_ActiveSandboxHasRunningContainer ==
    /\ \A sandbox_id \in DOMAIN active_sandboxes :
           LET info == active_sandboxes[sandbox_id] IN
           (info.isolation_mode = "container" /\ info.status = "active") =>
               /\ info.container_id \in DOMAIN containers
               /\ containers[info.container_id].status = "running"
    /\ last.op = "execute_tool" => last.stage # "APIError:not running"

====
